---- MODULE Spec2Model ----
(***************************************************************************)
(* Model of the shared browser session manager of claudetool/browse        *)
(* (browse.go): the BrowseTools struct, its manager lock b.mux, the lazy   *)
(* startup in GetBrowserContext, the idle timer (time.AfterFunc) and the   *)
(* teardown in closeBrowserLocked / Close / idleShutdown.                  *)
(*                                                                         *)
(* Goroutines are processes with a program counter.  Tool-call goroutines  *)
(* are Threads; the goroutine that time.AfterFunc spawns when timer k      *)
(* expires is process Cb(k).  Every context pair created by one startup    *)
(* attempt (NewExecAllocator + NewContext) gets a fresh identifier, and so *)
(* does every timer created by time.AfterFunc.                             *)
(***************************************************************************)
EXTENDS Integers, Sequences, FiniteSets, TLC

\* ---------------------------------------------------------------- bounds
\* number of concurrent tool-call goroutines
NumThreads == 2
\* total number of GetBrowserContext / Close calls made in one behaviour
MaxOps == 3
\* the clock runs from 0 to MaxTime
MaxTime == 3
\* b.idleTimeout, in clock ticks
IdleTimeout == 2
\* b.maxConsoleLogs, the capacity of the console log (100 in NewBrowseTools),
\* scaled down
maxConsoleLogs == 2
\* the default limit of recentConsoleLogsRun (100 in the code), scaled down
DefaultLogLimit == 2
\* number of console events the page produces in one behaviour
MaxEvents == 3
\* number of tool calls that reach GetBrowserContext in one behaviour
MaxCalls == 2
\* the longest side, in pixels, of the images normalisation is tried with
MaxSide == 4
\* the largest configured image dimension normalisation is tried with
MaxDimension == 3
\* the diff views on one page
NumViews == 4
\* the frames and errors one terminal socket delivers
MaxFrames == 4
\* exitCode before any exit frame (useState<number | null>(null))
null == -1

\* ------------------------------------------------------------ vocabulary
\* a nil pointer / nil context / unlocked mutex
Nil == 0
\* the non-nil error GetBrowserContext returns
Err == -1

Threads == 1..NumThreads
\* identifiers of startup attempts (context pairs) and of timers
Ids == 1..MaxOps
\* the goroutine running b.idleShutdown for timer k
Cb(k) == NumThreads + k
Procs == 1..(NumThreads + MaxOps)
\* the goroutine on which chromedp delivers console events to the listener
Listener == NumThreads + MaxOps + 1

\* the decoded input of a tool call: the URL of navigate as url.Parse sees it
\* (parses, scheme, port), the width and height of resize, the limit of
\* recentConsoleLogsRun; the fields an operation does not have stay at NoArg's
NoArg == [parses |-> TRUE, scheme |-> "", port |-> "", w |-> 0, h |-> 0, limit |-> 0]
\* the URLs navigate is tried with: http://host, http://host:80, https://host:80,
\* http://host:8080, https://host, http://host:080 (url.Parse accepts any digits
\* as a port and URL.Port returns them as written), and one url.Parse rejects
NavInputs ==
    {[NoArg EXCEPT !.scheme = "http", !.port = ""],
     [NoArg EXCEPT !.scheme = "http", !.port = "80"],
     [NoArg EXCEPT !.scheme = "https", !.port = "80"],
     [NoArg EXCEPT !.scheme = "http", !.port = "8080"],
     [NoArg EXCEPT !.scheme = "https", !.port = ""],
     [NoArg EXCEPT !.scheme = "http", !.port = "080"],
     [NoArg EXCEPT !.parses = FALSE]}
\* the width/height pairs resize is tried with
ResizeInputs == {[NoArg EXCEPT !.w = a, !.h = b] : a \in {-1, 0, 1}, b \in {0, 1}}
\* the limits recentConsoleLogsRun is tried with (0 is also the omitted field)
LogInputs == {[NoArg EXCEPT !.limit = l] : l \in {-1, 0, 1, maxConsoleLogs + 1}}

VARIABLES
    mux,               \* b.mux: Nil, or the process holding it
    allocCtx,          \* b.allocCtx: Nil or an attempt id
    allocCancel,       \* b.allocCancel
    browserCtx,        \* b.browserCtx
    browserCtxCancel,  \* b.browserCtxCancel
    idleTimer,         \* b.idleTimer: Nil or a timer id
    timerState,        \* per timer: "none", "armed", "stopped", "fired"
    timerDeadline,     \* per timer: the time it was armed for
    nextTimer,         \* next fresh timer id
    nextCtx,           \* next fresh attempt id
    started,           \* attempts whose chromedp.Run(browserCtx) succeeded
    viewportOK,        \* attempts whose EmulateViewport succeeded
    bCancelBy,         \* per attempt: who called its browserCancel, in order
    aCancelBy,         \* per attempt: who called its allocCancel, in order
    exited,            \* attempts whose browser context ended with no cancel call
    now,               \* the clock
    pc,                \* per process: position in its code
    loc,               \* per thread: the attempt id held in its locals
    ret,               \* per thread: what its last GetBrowserContext returned
    failedAt,          \* per thread: the step its last GetBrowserContext failed at
    ops,               \* calls made so far
    lastAcq,           \* time of the last successful GetBrowserContext, or Err
    gapExceeded,       \* some two consecutive successful calls were >= IdleTimeout apart
    events,            \* log of "start" / "close" / "idle"
    op,                \* per thread: the tool operation it is running, or "none"
    arg,               \* per thread: the validated input the operation still needs
    out,               \* the last result a tool operation returned
    opCtx,             \* per thread: its timeoutCtx: state and parent context
    consoleLogs,       \* b.consoleLogs: the stored events, oldest first
    consoleLogsMutex,  \* b.consoleLogsMutex: Nil or its holder
    nextEvent,         \* number of the next console event the page produces
    lpc,               \* position of the goroutine delivering console events
    sinceClear,        \* events appended since the log was last emptied
    removed,           \* events removed so far by eviction or by a clear
    logTmp,            \* per thread: a local of the running handler (start, logCount, id)
    screenshots,       \* b.screenshots: the identifiers recorded
    files,             \* identifiers whose file was written under ScreenshotDir
    nextShot,          \* next identifier uuid.New() yields
    screenshotsMutex,  \* b.screenshotsMutex: Nil or its holder
    maxImageDimension, \* b.maxImageDimension
    image,             \* the image bytes a handler is about to normalize, or NoImage
    shown,             \* the image result a handler built from them, or NoResult
    monacoInstance,    \* PatchTool.tsx monacoInstance: Nil or the imported module
    monacoLoadPromise, \* PatchTool.tsx monacoLoadPromise: NoPromise or the promise kept
    loadState,         \* per import started: "none", "pending", "fulfilled", "rejected"
    imports,           \* dynamic imports of /monaco-editor.js started so far
    isVisible,         \* per diff view: its isVisible state
    monacoLoaded,      \* per diff view: its monacoLoaded state
    monacoRef,         \* per diff view: monacoRef.current, or Nil
    got,               \* per diff view: the promise its loadMonaco call returned
    loadCalls,         \* the views that called loadMonaco, in order, with what they met
    loadErrors,        \* the views that logged "Failed to load Monaco"
    status,            \* TerminalWidget status
    exitCode,          \* TerminalWidget exitCode, or null
    readyState,        \* the websocket: "connecting", "open" or "closed"
    received           \* the events the websocket handlers have run for, in order

vars == <<mux, allocCtx, allocCancel, browserCtx, browserCtxCancel, idleTimer,
          timerState, timerDeadline, nextTimer, nextCtx, started, viewportOK,
          bCancelBy, aCancelBy, exited, now, pc, loc, ret, failedAt, ops, lastAcq,
          gapExceeded, events, op, arg, out, opCtx, consoleLogs,
          consoleLogsMutex, nextEvent, lpc, sinceClear, removed, logTmp,
          screenshots, files, nextShot, screenshotsMutex, maxImageDimension,
          image, shown, monacoInstance, monacoLoadPromise, loadState, imports,
          isVisible, monacoLoaded, monacoRef, got, loadCalls, loadErrors, status,
          exitCode,
          readyState, received>>

handles == <<allocCtx, allocCancel, browserCtx, browserCtxCancel>>
timers == <<idleTimer, timerState, timerDeadline, nextTimer>>
ctxs == <<nextCtx, started, viewportOK, bCancelBy, aCancelBy, exited>>
hist == <<lastAcq, gapExceeded, events>>
locals == <<loc, ret, failedAt>>
\* the state of the tool operations, the console log and the screenshot registry
calls == <<op, arg, out, opCtx, logTmp>>
logs == <<consoleLogs, consoleLogsMutex, nextEvent, lpc, sinceClear, removed>>
shots == <<screenshots, files, nextShot, screenshotsMutex>>
images == <<maxImageDimension, image, shown>>
\* the web UI: the Monaco loader with its diff views, and one terminal widget
monaco == <<monacoInstance, monacoLoadPromise, loadState, imports, isVisible,
            monacoLoaded, monacoRef, got, loadCalls, loadErrors>>
terminal == <<status, exitCode, readyState, received>>
ui == <<monaco, terminal>>
tool == <<calls, logs, shots, images, ui, ui>>

\* no image bytes in hand, and no image result built
NoImage == [w |-> 0, h |-> 0, decodes |-> FALSE, reencoded |-> FALSE]
NoResult ==
    [op |-> "none", kind |-> "none", data |-> NoImage, resized |-> FALSE,
     text |-> <<>>]

\* NewBrowseTools: no browser, no timer, nothing running
InitManager ==
    /\ mux = Nil
    /\ allocCtx = Nil /\ allocCancel = Nil
    /\ browserCtx = Nil /\ browserCtxCancel = Nil
    /\ idleTimer = Nil
    /\ timerState = [k \in Ids |-> "none"]
    /\ timerDeadline = [k \in Ids |-> 0]
    /\ nextTimer = 1
    /\ nextCtx = 1
    /\ started = {}
    /\ viewportOK = {}
    /\ bCancelBy = [i \in Ids |-> <<>>]
    /\ aCancelBy = [i \in Ids |-> <<>>]
    /\ exited = {}
    /\ now = 0
    /\ pc = [p \in Procs |-> IF p \in Threads THEN "idle" ELSE "none"]
    /\ loc = [t \in Threads |-> Nil]
    /\ ret = [t \in Threads |-> Nil]
    /\ failedAt = [t \in Threads |-> ""]
    /\ ops = 0
    /\ lastAcq = Err
    /\ gapExceeded = FALSE
    /\ events = <<>>
    /\ op = [t \in Threads |-> "none"]
    /\ arg = [t \in Threads |-> NoArg]
    /\ out = [who |-> Nil, op |-> "none", kind |-> "none", why |-> "", val |-> <<>>]
    /\ opCtx = [t \in Threads |-> [st |-> "none", parent |-> Nil]]
    /\ consoleLogs = <<>>
    /\ consoleLogsMutex = Nil
    /\ nextEvent = 1
    /\ lpc = "idle"
    /\ sinceClear = 0
    /\ removed = 0
    /\ logTmp = [t \in Threads |-> 0]
    /\ screenshots = {}
    /\ files = {}
    /\ nextShot = 1
    /\ screenshotsMutex = Nil

\* ------------------------------------------------------------- web UI
\* the diff views on one page
Views == 1..NumViews

\* no promise, the promise of the n-th import, and Promise.resolve(m)
NoPromise == [kind |-> "none", id |-> Nil]
LoadPromise(n) == [kind |-> "load", id |-> n]
Resolved(m) == [kind |-> "resolved", id |-> m]

\* how a promise has settled: the promise of an import settles as the import
\* does, Promise.resolve(m) is fulfilled from the start
Settled(p) ==
    IF p.kind = "load" THEN loadState[p.id]
    ELSE IF p.kind = "resolved" THEN "fulfilled" ELSE "none"

\* what loadMonaco finds when it is called
Met ==
    IF monacoInstance # Nil THEN "instance"
    ELSE IF monacoLoadPromise # NoPromise THEN Settled(monacoLoadPromise)
    ELSE "nothing"

\* a page just loaded: nothing imported, no view on screen
InitMonaco ==
    /\ monacoInstance = Nil
    /\ monacoLoadPromise = NoPromise
    /\ loadState = [n \in Views |-> "none"]
    /\ imports = 0
    /\ isVisible = [v \in Views |-> FALSE]
    /\ monacoLoaded = [v \in Views |-> FALSE]
    /\ monacoRef = [v \in Views |-> Nil]
    /\ got = [v \in Views |-> NoPromise]
    /\ loadCalls = <<>>
    /\ loadErrors = {}

\* the frames the server sends on the socket: output, exit with a code as
\* text, error, and text that is not JSON
NoMsg == [type |-> "none", data |-> ""]
Frames ==
    {[type |-> "output", data |-> d] : d \in {"", "aGk="}}
        \cup {[type |-> "exit", data |-> d] : d \in {"0", "1", "", "killed"}}
        \cup {[type |-> "error", data |-> "no pty"], [type |-> "unparsable", data |-> "{"]}

\* parseInt(data, 10): the number the text starts with, or NaN
parseInt(d) ==
    IF d = "0" THEN [nan |-> FALSE, n |-> 0]
    ELSE IF d = "1" THEN [nan |-> FALSE, n |-> 1]
    ELSE [nan |-> TRUE, n |-> 0]

\* x || 0 on a number: NaN and 0 are falsy
OrZero(x) == IF x.nan \/ x.n = 0 THEN 0 ELSE x.n

\* useState("connecting"), useState(null), and a socket just constructed
InitTerminal ==
    /\ status = "connecting"
    /\ exitCode = null
    /\ readyState = "connecting"
    /\ received = <<>>

InitUI == InitMonaco /\ InitTerminal

\* NewBrowseTools(ctx, idleTimeout, 0): image dimensions unlimited, and no
\* image in hand
Init ==
    /\ InitManager
    /\ InitUI
    /\ maxImageDimension = 0
    /\ image = NoImage
    /\ shown = NoResult

\* ------------------------------------------------------------- helpers
Goto(p, l) == pc' = [pc EXCEPT ![p] = l]

\* a lock that excludes nobody
LockNoExclusion(p) == mux' = p

\* sync.Mutex.Lock on b.mux: blocks until the mutex is free
Lock(p) == mux = Nil /\ mux' = p

\* a Stop that stops nothing
TimerStopNoop(ts, k) == ts

\* time.Timer.Stop: an armed timer will not fire; anything else is untouched
TimerStop(ts, k) == IF ts[k] = "armed" THEN [ts EXCEPT ![k] = "stopped"] ELSE ts

\* arms a timer only when none is held, so an access does not extend the deadline
resetIdleTimerOnlyIfNil ==
    IF idleTimer # Nil
    THEN UNCHANGED <<timerState, timerDeadline, idleTimer, nextTimer>>
    ELSE /\ timerState' = [timerState EXCEPT ![nextTimer] = "armed"]
         /\ timerDeadline' = [timerDeadline EXCEPT ![nextTimer] = now + IdleTimeout]
         /\ idleTimer' = nextTimer
         /\ nextTimer' = nextTimer + 1

\* a reset that stops the old timer and keeps its deadline for the new one
resetIdleTimerKeepsDeadline ==
    LET stopped == IF idleTimer # Nil THEN TimerStop(timerState, idleTimer)
                   ELSE timerState
        deadline == IF idleTimer # Nil /\ timerState[idleTimer] = "armed"
                    THEN timerDeadline[idleTimer] ELSE now + IdleTimeout
    IN /\ timerState' = [stopped EXCEPT ![nextTimer] = "armed"]
       /\ timerDeadline' = [timerDeadline EXCEPT ![nextTimer] = deadline]
       /\ idleTimer' = nextTimer
       /\ nextTimer' = nextTimer + 1

\* resetIdleTimerLocked: stop the current timer, arm a fresh one for a full
\* idleTimeout from now
resetIdleTimerLocked ==
    LET stopped == IF idleTimer # Nil THEN TimerStop(timerState, idleTimer)
                   ELSE timerState
    IN /\ timerState' = [stopped EXCEPT ![nextTimer] = "armed"]
       /\ timerDeadline' = [timerDeadline EXCEPT ![nextTimer] = now + IdleTimeout]
       /\ idleTimer' = nextTimer
       /\ nextTimer' = nextTimer + 1

\* bookkeeping of a successful GetBrowserContext at the current time
NoteAcquire ==
    /\ lastAcq' = now
    /\ gapExceeded' = (gapExceeded \/ (lastAcq # Err /\ now - lastAcq >= IdleTimeout))
    /\ UNCHANGED events

\* ------------------------------------------------- GetBrowserContext
\* a tool call invokes b.GetBrowserContext()
CallGetBrowserContext(t) ==
    /\ pc[t] = "idle"
    /\ ops < MaxOps
    /\ ops' = ops + 1
    /\ Goto(t, "gbc_lock")
    /\ UNCHANGED <<mux, handles, timers, ctxs, now, locals, hist>>
    /\ UNCHANGED tool

\* b.mux.Lock(); defer b.mux.Unlock()
GBC_Lock(t) ==
    /\ pc[t] = "gbc_lock"
    /\ Lock(t)
    /\ Goto(t, "gbc_check")
    /\ UNCHANGED <<handles, timers, ctxs, now, locals, ops, hist>>
    /\ UNCHANGED tool

\* GetBrowserContext without the test for an existing browser
GBC_CheckAlwaysStarts(t) ==
    /\ pc[t] = "gbc_check"
    /\ loc' = [loc EXCEPT ![t] = nextCtx]
    /\ nextCtx' = nextCtx + 1
    /\ Goto(t, "gbc_start")
    /\ UNCHANGED <<timers, ret, failedAt, hist, started, viewportOK,
                   bCancelBy, aCancelBy, mux, handles, now, ops, exited>>
    /\ UNCHANGED tool

\* if b.browserCtx != nil { reset the idle timer; return b.browserCtx }
\* otherwise NewExecAllocator + NewContext (+ ListenTarget) into locals
GBC_Check(t) ==
    /\ pc[t] = "gbc_check"
    /\ IF browserCtx # Nil
       THEN /\ resetIdleTimerLocked
            /\ NoteAcquire
            /\ ret' = [ret EXCEPT ![t] = browserCtx]
            /\ failedAt' = [failedAt EXCEPT ![t] = ""]
            /\ Goto(t, "gbc_ret")
            /\ UNCHANGED <<loc, ctxs>>
       ELSE /\ loc' = [loc EXCEPT ![t] = nextCtx]
            /\ nextCtx' = nextCtx + 1
            /\ Goto(t, "gbc_start")
            /\ UNCHANGED <<timers, ret, failedAt, hist, started, viewportOK,
                           bCancelBy, aCancelBy, exited>>
    /\ UNCHANGED <<mux, handles, now, ops>>
    /\ UNCHANGED tool

\* chromedp.Run(browserCtx): start the browser process.
\* On error: allocCancel(); return nil, err
GBC_StartBrowser(t) ==
    /\ pc[t] = "gbc_start"
    /\ \/ /\ started' = started \cup {loc[t]}
          /\ Goto(t, "gbc_viewport")
          /\ UNCHANGED <<aCancelBy, ret, failedAt>>
       \/ /\ aCancelBy' = [aCancelBy EXCEPT ![loc[t]] = Append(@, t)]
          /\ ret' = [ret EXCEPT ![t] = Err]
          /\ failedAt' = [failedAt EXCEPT ![t] = "start"]
          /\ Goto(t, "gbc_ret")
          /\ UNCHANGED started
    /\ UNCHANGED <<mux, handles, timers, nextCtx, viewportOK, bCancelBy, now,
                   loc, ops, hist, exited>>
    /\ UNCHANGED tool

\* the viewport step with the handles stored before it and not rolled back
GBC_SetViewportKeepsHandles(t) ==
    /\ pc[t] = "gbc_viewport"
    /\ \/ /\ viewportOK' = viewportOK \cup {loc[t]}
          /\ Goto(t, "gbc_assign")
          /\ UNCHANGED <<aCancelBy, bCancelBy, ret, failedAt, handles>>
       \/ /\ bCancelBy' = [bCancelBy EXCEPT ![loc[t]] = Append(@, t)]
          /\ aCancelBy' = [aCancelBy EXCEPT ![loc[t]] = Append(@, t)]
          /\ ret' = [ret EXCEPT ![t] = Err]
          /\ failedAt' = [failedAt EXCEPT ![t] = "viewport"]
          /\ allocCtx' = loc[t] /\ allocCancel' = loc[t]
          /\ browserCtx' = loc[t] /\ browserCtxCancel' = loc[t]
          /\ Goto(t, "gbc_ret")
          /\ UNCHANGED viewportOK
    /\ UNCHANGED <<mux, timers, nextCtx, started, now, loc, ops, hist, exited>>
    /\ UNCHANGED tool

\* the viewport step whose error path forgets allocCancel()
GBC_SetViewportLeaksAlloc(t) ==
    /\ pc[t] = "gbc_viewport"
    /\ \/ /\ viewportOK' = viewportOK \cup {loc[t]}
          /\ Goto(t, "gbc_assign")
          /\ UNCHANGED <<aCancelBy, bCancelBy, ret, failedAt>>
       \/ /\ bCancelBy' = [bCancelBy EXCEPT ![loc[t]] = Append(@, t)]
          /\ ret' = [ret EXCEPT ![t] = Err]
          /\ failedAt' = [failedAt EXCEPT ![t] = "viewport"]
          /\ Goto(t, "gbc_ret")
          /\ UNCHANGED <<viewportOK, aCancelBy>>
    /\ UNCHANGED <<mux, handles, timers, nextCtx, started, now, loc, ops, hist, exited>>
    /\ UNCHANGED tool

\* chromedp.Run(browserCtx, EmulateViewport(1280, 720)).
\* On error: browserCancel(); allocCancel(); return nil, err
GBC_SetViewport(t) ==
    /\ pc[t] = "gbc_viewport"
    /\ \/ /\ viewportOK' = viewportOK \cup {loc[t]}
          /\ Goto(t, "gbc_assign")
          /\ UNCHANGED <<aCancelBy, bCancelBy, ret, failedAt>>
       \/ /\ bCancelBy' = [bCancelBy EXCEPT ![loc[t]] = Append(@, t)]
          /\ aCancelBy' = [aCancelBy EXCEPT ![loc[t]] = Append(@, t)]
          /\ ret' = [ret EXCEPT ![t] = Err]
          /\ failedAt' = [failedAt EXCEPT ![t] = "viewport"]
          /\ Goto(t, "gbc_ret")
          /\ UNCHANGED viewportOK
    /\ UNCHANGED <<mux, handles, timers, nextCtx, started, now, loc, ops, hist, exited>>
    /\ UNCHANGED tool

\* b.allocCtx = allocCtx; b.allocCancel = allocCancel;
\* b.browserCtx = browserCtx; b.browserCtxCancel = browserCancel
GBC_Assign(t) ==
    /\ pc[t] = "gbc_assign"
    /\ allocCtx' = loc[t]
    /\ allocCancel' = loc[t]
    /\ browserCtx' = loc[t]
    /\ browserCtxCancel' = loc[t]
    /\ events' = Append(events, "start")
    /\ Goto(t, "gbc_reset")
    /\ UNCHANGED <<mux, timers, ctxs, now, locals, ops, lastAcq, gapExceeded>>
    /\ UNCHANGED tool

\* b.resetIdleTimerLocked(); return b.browserCtx, nil
GBC_ResetTimer(t) ==
    /\ pc[t] = "gbc_reset"
    /\ resetIdleTimerLocked
    /\ NoteAcquire
    /\ ret' = [ret EXCEPT ![t] = browserCtx]
    /\ failedAt' = [failedAt EXCEPT ![t] = ""]
    /\ Goto(t, "gbc_ret")
    /\ UNCHANGED <<mux, handles, ctxs, now, loc, ops>>
    /\ UNCHANGED tool

\* a GetBrowserContext whose error paths return without unlocking
GBC_ReturnLockedOnError(t) ==
    /\ pc[t] = "gbc_ret"
    /\ mux' = IF ret[t] = Err THEN mux ELSE Nil
    /\ Goto(t, IF op[t] = "none" THEN "idle" ELSE "acquired")
    /\ UNCHANGED <<handles, timers, ctxs, now, locals, ops, hist>>
    /\ UNCHANGED tool

\* the deferred b.mux.Unlock() as GetBrowserContext returns
GBC_Return(t) ==
    /\ pc[t] = "gbc_ret"
    /\ mux' = Nil
    /\ Goto(t, IF op[t] = "none" THEN "idle" ELSE "acquired")
    /\ UNCHANGED <<handles, timers, ctxs, now, locals, ops, hist>>
    /\ UNCHANGED tool

\* ------------------------------------------------------------- Close
\* a caller invokes b.Close()
CallClose(t) ==
    /\ pc[t] = "idle"
    /\ ops < MaxOps
    /\ ops' = ops + 1
    /\ Goto(t, "close_lock")
    /\ UNCHANGED <<mux, handles, timers, ctxs, now, locals, hist>>
    /\ UNCHANGED tool

\* b.mux.Lock(); defer b.mux.Unlock(); b.closeBrowserLocked()
Close_Lock(t) ==
    /\ pc[t] = "close_lock"
    /\ Lock(t)
    /\ Goto(t, "cl_timer")
    /\ UNCHANGED <<handles, timers, ctxs, now, locals, ops, hist>>
    /\ UNCHANGED tool

\* ------------------------------------------------ closeBrowserLocked
\* the first step of closeBrowserLocked dropping the timer without stopping it
CBL_StopTimerDropsOnly(p) ==
    /\ pc[p] = "cl_timer"
    /\ idleTimer' = Nil
    /\ Goto(p, "cl_browser")
    /\ UNCHANGED <<mux, handles, timerState, timerDeadline, nextTimer, ctxs, now,
                   locals, ops, hist>>
    /\ UNCHANGED tool

\* if b.idleTimer != nil { b.idleTimer.Stop(); b.idleTimer = nil }
CBL_StopTimer(p) ==
    /\ pc[p] = "cl_timer"
    /\ IF idleTimer # Nil
       THEN /\ timerState' = TimerStop(timerState, idleTimer)
            /\ idleTimer' = Nil
       ELSE UNCHANGED <<timerState, idleTimer>>
    /\ Goto(p, "cl_browser")
    /\ UNCHANGED <<mux, handles, timerDeadline, nextTimer, ctxs, now, locals,
                   ops, hist>>
    /\ UNCHANGED tool

\* a teardown that drops the browser cancel function without calling it
CBL_CancelBrowserDropsOnly(p) ==
    /\ pc[p] = "cl_browser"
    /\ browserCtxCancel' = Nil
    /\ Goto(p, "cl_alloc")
    /\ UNCHANGED <<mux, allocCtx, allocCancel, browserCtx, timers, ctxs, now,
                   locals, ops, hist>>
    /\ UNCHANGED tool

\* if b.browserCtxCancel != nil { b.browserCtxCancel(); b.browserCtxCancel = nil }
CBL_CancelBrowser(p) ==
    /\ pc[p] = "cl_browser"
    /\ IF browserCtxCancel # Nil
       THEN /\ bCancelBy' = [bCancelBy EXCEPT ![browserCtxCancel] = Append(@, p)]
            /\ browserCtxCancel' = Nil
       ELSE UNCHANGED <<bCancelBy, browserCtxCancel>>
    /\ Goto(p, "cl_alloc")
    /\ UNCHANGED <<mux, allocCtx, allocCancel, browserCtx, timers, nextCtx,
                   started, viewportOK, aCancelBy, now, locals, ops, hist, exited>>
    /\ UNCHANGED tool

\* a teardown that calls b.allocCancel and keeps it stored
CBL_CancelAllocKeepsFunc(p) ==
    /\ pc[p] = "cl_alloc"
    /\ IF allocCancel # Nil
       THEN aCancelBy' = [aCancelBy EXCEPT ![allocCancel] = Append(@, p)]
       ELSE UNCHANGED aCancelBy
    /\ Goto(p, "cl_clear")
    /\ UNCHANGED <<mux, handles, timers, nextCtx, started, viewportOK, bCancelBy,
                   exited, now, locals, ops, hist>>
    /\ UNCHANGED tool

\* if b.allocCancel != nil { b.allocCancel(); b.allocCancel = nil }
CBL_CancelAlloc(p) ==
    /\ pc[p] = "cl_alloc"
    /\ IF allocCancel # Nil
       THEN /\ aCancelBy' = [aCancelBy EXCEPT ![allocCancel] = Append(@, p)]
            /\ allocCancel' = Nil
       ELSE UNCHANGED <<aCancelBy, allocCancel>>
    /\ Goto(p, "cl_clear")
    /\ UNCHANGED <<mux, allocCtx, browserCtx, browserCtxCancel, timers, nextCtx,
                   started, viewportOK, bCancelBy, now, locals, ops, hist, exited>>
    /\ UNCHANGED tool

\* the final step of closeBrowserLocked forgetting b.browserCtx = nil
CBL_ClearKeepsBrowserCtx(p) ==
    /\ pc[p] = "cl_clear"
    /\ allocCtx' = Nil
    /\ events' = IF browserCtx # Nil
                 THEN Append(events, IF p \in Threads THEN "close" ELSE "idle")
                 ELSE events
    /\ Goto(p, "unlock")
    /\ UNCHANGED <<mux, allocCancel, browserCtx, browserCtxCancel, timers, ctxs,
                   now, locals, ops, lastAcq, gapExceeded>>
    /\ UNCHANGED tool

\* the final step of closeBrowserLocked forgetting b.allocCtx = nil
CBL_ClearKeepsAllocCtx(p) ==
    /\ pc[p] = "cl_clear"
    /\ browserCtx' = Nil
    /\ events' = IF browserCtx # Nil
                 THEN Append(events, IF p \in Threads THEN "close" ELSE "idle")
                 ELSE events
    /\ Goto(p, "unlock")
    /\ UNCHANGED <<mux, allocCtx, allocCancel, browserCtxCancel, timers, ctxs, now,
                   locals, ops, lastAcq, gapExceeded>>
    /\ UNCHANGED tool

\* a teardown that also drops the captured console events
CBL_ClearResetsLogs(p) ==
    /\ pc[p] = "cl_clear"
    /\ browserCtx' = Nil
    /\ allocCtx' = Nil
    /\ events' = IF browserCtx # Nil
                 THEN Append(events, IF p \in Threads THEN "close" ELSE "idle")
                 ELSE events
    /\ Goto(p, "unlock")
    /\ consoleLogs' = <<>>
    /\ UNCHANGED <<mux, allocCancel, browserCtxCancel, timers, ctxs, now,
                   locals, ops, lastAcq, gapExceeded>>
    /\ UNCHANGED <<calls, shots, images, ui, consoleLogsMutex, nextEvent, lpc, sinceClear, removed>>

\* b.browserCtx = nil; b.allocCtx = nil
CBL_Clear(p) ==
    /\ pc[p] = "cl_clear"
    /\ browserCtx' = Nil
    /\ allocCtx' = Nil
    /\ events' = IF browserCtx # Nil
                 THEN Append(events, IF p \in Threads THEN "close" ELSE "idle")
                 ELSE events
    /\ Goto(p, "unlock")
    /\ UNCHANGED <<mux, allocCancel, browserCtxCancel, timers, ctxs, now,
                   locals, ops, lastAcq, gapExceeded>>
    /\ UNCHANGED tool

\* the deferred b.mux.Unlock() of Close and of idleShutdown
Unlock(p) ==
    /\ pc[p] = "unlock"
    /\ mux' = Nil
    /\ Goto(p, IF p \in Threads THEN "idle" ELSE "done")
    /\ UNCHANGED <<handles, timers, ctxs, now, locals, ops, hist>>
    /\ UNCHANGED tool

\* ------------------------------------------------- the idle timer
\* the clock advances
Tick ==
    /\ now < MaxTime
    /\ now' = now + 1
    /\ UNCHANGED <<mux, handles, timers, ctxs, pc, locals, ops, hist>>
    /\ UNCHANGED tool

\* an armed timer expires at or after its deadline: the runtime starts a
\* goroutine running b.idleShutdown
TimerFire(k) ==
    /\ timerState[k] = "armed"
    /\ now >= timerDeadline[k]
    /\ pc[Cb(k)] = "none"
    /\ timerState' = [timerState EXCEPT ![k] = "fired"]
    /\ Goto(Cb(k), "is_lock")
    /\ UNCHANGED <<mux, handles, idleTimer, timerDeadline, nextTimer, ctxs, now,
                   locals, ops, hist>>
    /\ UNCHANGED tool

\* an idle shutdown that waits until no operation is using the Session
IS_LockWaitsForOps(k) ==
    /\ pc[Cb(k)] = "is_lock"
    /\ \A t \in Threads : pc[t] # "op_run"
    /\ Lock(Cb(k))
    /\ Goto(Cb(k), "is_check")
    /\ UNCHANGED <<handles, timers, ctxs, now, locals, ops, hist>>
    /\ UNCHANGED tool

\* idleShutdown: b.mux.Lock(); defer b.mux.Unlock()
IS_Lock(k) ==
    /\ pc[Cb(k)] = "is_lock"
    /\ Lock(Cb(k))
    /\ Goto(Cb(k), "is_check")
    /\ UNCHANGED <<handles, timers, ctxs, now, locals, ops, hist>>
    /\ UNCHANGED tool

\* idleShutdown without the test for an absent browser
IS_CheckNoNilTest(k) ==
    /\ pc[Cb(k)] = "is_check"
    /\ Goto(Cb(k), "cl_timer")
    /\ UNCHANGED <<mux, handles, timers, ctxs, now, locals, ops, hist>>
    /\ UNCHANGED tool

\* an idleShutdown whose early return leaves b.mux locked
IS_CheckReturnsLocked(k) ==
    /\ pc[Cb(k)] = "is_check"
    /\ Goto(Cb(k), IF browserCtx = Nil THEN "done" ELSE "cl_timer")
    /\ UNCHANGED <<mux, handles, timers, ctxs, now, locals, ops, hist>>
    /\ UNCHANGED tool

\* idleShutdown: if b.browserCtx == nil { return }; b.closeBrowserLocked()
IS_Check(k) ==
    /\ pc[Cb(k)] = "is_check"
    /\ Goto(Cb(k), IF browserCtx = Nil THEN "unlock" ELSE "cl_timer")
    /\ UNCHANGED <<mux, handles, timers, ctxs, now, locals, ops, hist>>
    /\ UNCHANGED tool

\* ======================================================== tool operations
\* a tool result: llm.ToolOut with content (ok) or llm.ErrorToolOut (error)
Result(k, w, v) == [kind |-> k, why |-> w, val |-> v]
\* thread t returns result r from the handler of operation o: out is the last
\* result any tool call returned
ReturnOf(t, o, r) ==
    /\ out' = [who |-> t, op |-> o, kind |-> r.kind, why |-> r.why, val |-> r.val]
    /\ op' = [op EXCEPT ![t] = "none"]
    /\ opCtx' = [opCtx EXCEPT ![t] = [st |-> "none", parent |-> Nil]]
    /\ arg' = [arg EXCEPT ![t] = NoArg]
    /\ Goto(t, "idle")

\* a return after GetBrowserContext, from the handler that is running
Return(t, r) == ReturnOf(t, op[t], r)

\* a tool whose input passed validation calls b.GetBrowserContext()
Acquire(t, o, a) ==
    /\ op' = [op EXCEPT ![t] = o]
    /\ arg' = [arg EXCEPT ![t] = a]
    /\ ops' = ops + 1
    /\ Goto(t, "gbc_lock")
    /\ UNCHANGED <<out, opCtx>>

sessionState == <<mux, handles, timers, ctxs, now, locals, hist>>

\* isPort80: false when url.Parse fails, else port == "80" or no port with
\* scheme http
isPort80(u) ==
    IF ~u.parses THEN FALSE
    ELSE u.port = "80" \/ (u.port = "" /\ u.scheme = "http")

\* navigateRun up to the GetBrowserContext call: json.Unmarshal, isPort80
navigateRun(t) ==
    /\ pc[t] = "idle" /\ ops < MaxCalls
    /\ \/ /\ ReturnOf(t, "navigate", Result("error", "input", <<>>))
          /\ UNCHANGED ops
       \/ \E u \in NavInputs :
             IF isPort80(u)
             THEN ReturnOf(t, "navigate", Result("error", "port80", <<>>)) /\ UNCHANGED ops
             ELSE Acquire(t, "navigate", u)
    /\ UNCHANGED <<sessionState, logs, shots, images, ui, logTmp>>

\* resizeRun that leaves the dimensions to the browser
resizeRunNoDimCheck(t) ==
    /\ pc[t] = "idle" /\ ops < MaxCalls
    /\ \/ /\ ReturnOf(t, "resize", Result("error", "input", <<>>))
          /\ UNCHANGED ops
       \/ \E a \in ResizeInputs : Acquire(t, "resize", a)
    /\ UNCHANGED <<sessionState, logs, shots, images, ui, logTmp>>

\* resizeRun up to the GetBrowserContext call: json.Unmarshal, then
\* input.Width <= 0 || input.Height <= 0 is an error
resizeRun(t) ==
    /\ pc[t] = "idle" /\ ops < MaxCalls
    /\ \/ /\ ReturnOf(t, "resize", Result("error", "input", <<>>))
          /\ UNCHANGED ops
       \/ \E a \in ResizeInputs :
             IF a.w <= 0 \/ a.h <= 0
             THEN ReturnOf(t, "resize", Result("error", "input", <<>>)) /\ UNCHANGED ops
             ELSE Acquire(t, "resize", a)
    /\ UNCHANGED <<sessionState, logs, shots, images, ui, logTmp>>

\* an evalRun that uses the stored browser context without GetBrowserContext
evalRunNoAcquire(t) ==
    /\ pc[t] = "idle" /\ ops < MaxCalls
    /\ \/ /\ ReturnOf(t, "eval", Result("error", "input", <<>>))
          /\ UNCHANGED ops
       \/ /\ op' = [op EXCEPT ![t] = "eval"]
          /\ ops' = ops + 1
          /\ Goto(t, "op_run")
          /\ UNCHANGED <<out, opCtx, arg>>
    /\ UNCHANGED <<sessionState, logs, shots, images, ui, logTmp>>

\* evalRun up to the GetBrowserContext call: json.Unmarshal only
evalRun(t) ==
    /\ pc[t] = "idle" /\ ops < MaxCalls
    /\ \/ /\ ReturnOf(t, "eval", Result("error", "input", <<>>))
          /\ UNCHANGED ops
       \/ Acquire(t, "eval", NoArg)
    /\ UNCHANGED <<sessionState, logs, shots, images, ui, logTmp>>

\* screenshotRun up to the GetBrowserContext call: json.Unmarshal only
screenshotRun(t) ==
    /\ pc[t] = "idle" /\ ops < MaxCalls
    /\ \/ /\ ReturnOf(t, "screenshot", Result("error", "input", <<>>))
          /\ UNCHANGED ops
       \/ Acquire(t, "screenshot", NoArg)
    /\ UNCHANGED <<sessionState, logs, shots, images, ui, logTmp>>

\* recentConsoleLogsRun up to the GetBrowserContext call: json.Unmarshal only
recentConsoleLogsRun(t) ==
    /\ pc[t] = "idle" /\ ops < MaxCalls
    /\ \/ /\ ReturnOf(t, "logs", Result("error", "input", <<>>))
          /\ UNCHANGED ops
       \/ \E a \in LogInputs : Acquire(t, "logs", a)
    /\ UNCHANGED <<sessionState, logs, shots, images, ui, logTmp>>

\* a clearConsoleLogsRun that goes to the log without GetBrowserContext
clearConsoleLogsRunNoAcquire(t) ==
    /\ pc[t] = "idle" /\ ops < MaxCalls
    /\ \/ /\ ReturnOf(t, "clear", Result("error", "input", <<>>))
          /\ UNCHANGED ops
       \/ /\ op' = [op EXCEPT ![t] = "clear"]
          /\ ops' = ops + 1
          /\ Goto(t, "clr_lock")
          /\ UNCHANGED <<out, opCtx, arg>>
    /\ UNCHANGED <<sessionState, logs, shots, images, ui, logTmp>>

\* clearConsoleLogsRun up to the GetBrowserContext call: json.Unmarshal only
clearConsoleLogsRun(t) ==
    /\ pc[t] = "idle" /\ ops < MaxCalls
    /\ \/ /\ ReturnOf(t, "clear", Result("error", "input", <<>>))
          /\ UNCHANGED ops
       \/ Acquire(t, "clear", NoArg)
    /\ UNCHANGED <<sessionState, logs, shots, images, ui, logTmp>>

\* readImageRun, whole: json.Unmarshal (error "input"); os.Stat, os.ReadFile,
\* DetectContentType and ResizeImage when b.maxImageDimension > 0 (each an
\* error "file"); else the image. It never calls GetBrowserContext.
readImageRun(t) ==
    /\ pc[t] = "idle"
    /\ \E r \in {Result("error", "input", <<>>), Result("error", "file", <<>>),
                 Result("ok", "", <<>>)} :
          ReturnOf(t, "read_image", r)
    /\ UNCHANGED <<sessionState, ops, logs, shots, images, ui, logTmp>>

\* a timeoutCtx derived from the caller's context instead of the Session's
DeriveFromCaller(t) == [st |-> "live", parent |-> Nil]

\* context.WithTimeout(browserCtx, parseTimeout(input.Timeout))
DeriveTimeoutCtx(t) == [st |-> "live", parent |-> ret[t]]

\* a context is done once its own deadline passed or cancel ran, or once its
\* parent is done
OpCtxDone(t) ==
    \/ opCtx[t].st = "expired"
    \/ /\ opCtx[t].parent # Nil
       /\ \/ bCancelBy[opCtx[t].parent] # <<>> \/ aCancelBy[opCtx[t].parent] # <<>>
          \/ opCtx[t].parent \in exited

\* a handler that goes on to its operation although GetBrowserContext failed
Tool_AcquiredIgnoresError(t) ==
    /\ pc[t] = "acquired"
    /\ Goto(t, CASE op[t] = "logs" -> "rcl_lock"
                 [] op[t] = "clear" -> "clr_lock"
                 [] OTHER -> "op_run")
    /\ opCtx' = [opCtx EXCEPT ![t] =
                    IF op[t] \in {"logs", "clear"} THEN @
                    ELSE DeriveTimeoutCtx(t)]
    /\ UNCHANGED <<out, op, arg>>
    /\ UNCHANGED <<sessionState, ops, logs, shots, images, ui, logTmp>>

\* after GetBrowserContext returned: if err != nil { return ErrorToolOut(err) };
\* otherwise derive the timeout context (navigate, resize, eval, screenshot)
\* or go on to the console log (logs, clear)
Tool_Acquired(t) ==
    /\ pc[t] = "acquired"
    /\ IF ret[t] = Err
       THEN Return(t, Result("error", "start", <<>>))
       ELSE /\ Goto(t, CASE op[t] = "logs" -> "rcl_lock"
                         [] op[t] = "clear" -> "clr_lock"
                         [] OTHER -> "op_run")
            /\ opCtx' = [opCtx EXCEPT ![t] =
                            IF op[t] \in {"logs", "clear"} THEN @
                            ELSE DeriveTimeoutCtx(t)]
            /\ UNCHANGED <<out, op, arg>>
    /\ UNCHANGED <<sessionState, ops, logs, shots, images, ui, logTmp>>

\* the deadline of one operation's timeoutCtx passes
Tool_Timeout(t) ==
    /\ pc[t] = "op_run"
    /\ opCtx[t].st = "live"
    /\ opCtx' = [opCtx EXCEPT ![t].st = "expired"]
    /\ UNCHANGED <<sessionState, pc, ops, op, arg, out, logs, shots, images, ui, logTmp>>

\* a protocol call that tears the browser down when it fails
Tool_RunClosesOnError(t) ==
    /\ pc[t] = "op_run"
    /\ Return(t, Result("error", "op", <<>>))
    /\ browserCtx' = Nil /\ allocCtx' = Nil
    /\ UNCHANGED <<mux, allocCancel, browserCtxCancel, timers, ctxs, now, locals,
                   hist, ops, logs, shots, images, ui, logTmp>>

\* chromedp.Run(timeoutCtx, actions...): it succeeds only while the context is
\* not done, and it may fail at any time (protocol error, or ctx.Err() once the
\* context is done). err != nil returns ErrorToolOut(err); the deferred
\* cancel() releases the timeoutCtx.
Tool_Run(t) ==
    /\ pc[t] = "op_run"
    /\ \/ /\ ~OpCtxDone(t)
          /\ IF op[t] = "screenshot"
             THEN Goto(t, "shot_save") /\ UNCHANGED <<out, op, opCtx, arg>>
             ELSE Return(t, Result("ok", "", <<>>))
       \/ Return(t, Result("error", "op", <<>>))
    /\ UNCHANGED <<sessionState, ops, logs, shots, images, ui, logTmp>>

\* a save that records the identifier whether or not the file was written
Shot_SaveRecordsFirst(t) ==
    /\ pc[t] = "shot_save"
    /\ nextShot' = nextShot + 1
    /\ screenshots' = screenshots \cup {nextShot}
    /\ \/ /\ Return(t, Result("error", "save", <<>>))
          /\ UNCHANGED <<files, logTmp>>
       \/ /\ files' = files \cup {nextShot}
          /\ logTmp' = [logTmp EXCEPT ![t] = nextShot]
          /\ Goto(t, "shot_record")
          /\ UNCHANGED <<out, op, opCtx, arg>>
    /\ UNCHANGED <<sessionState, ops, logs, screenshotsMutex, images, ui>>

\* a save whose identifiers repeat
Shot_SaveReusesId(t) ==
    /\ pc[t] = "shot_save"
    /\ UNCHANGED nextShot
    /\ \/ /\ Return(t, Result("error", "save", <<>>))
          /\ UNCHANGED <<files, logTmp>>
       \/ /\ files' = files \cup {1}
          /\ logTmp' = [logTmp EXCEPT ![t] = 1]
          /\ Goto(t, "shot_record")
          /\ UNCHANGED <<out, op, opCtx, arg>>
    /\ UNCHANGED <<sessionState, ops, logs, screenshots, screenshotsMutex, images, ui>>

\* screenshotRun after the capture, SaveScreenshot up to the file:
\* id := uuid.New().String() (a fresh identifier), os.WriteFile; when the
\* write fails SaveScreenshot returns "" and screenshotRun returns an error
Shot_Save(t) ==
    /\ pc[t] = "shot_save"
    /\ nextShot' = nextShot + 1
    /\ \/ /\ Return(t, Result("error", "save", <<>>))
          /\ UNCHANGED <<files, logTmp>>
       \/ /\ files' = files \cup {nextShot}
          /\ logTmp' = [logTmp EXCEPT ![t] = nextShot]
          /\ Goto(t, "shot_record")
          /\ UNCHANGED <<out, op, opCtx, arg>>
    /\ UNCHANGED <<sessionState, ops, logs, screenshots, screenshotsMutex, images, ui>>

\* SaveScreenshot: b.screenshotsMutex.Lock(); b.screenshots[id] = time.Now()
Shot_Record(t) ==
    /\ pc[t] = "shot_record"
    /\ screenshotsMutex = Nil
    /\ screenshotsMutex' = t
    /\ screenshots' = screenshots \cup {logTmp[t]}
    /\ Goto(t, "shot_unlock")
    /\ UNCHANGED <<sessionState, ops, calls, logs, files, nextShot, images, ui>>

\* a SaveScreenshot that returns without unlocking b.screenshotsMutex
Shot_FinishKeepsLock(t) ==
    /\ pc[t] = "shot_unlock"
    /\ logTmp' = [logTmp EXCEPT ![t] = 0]
    /\ \/ Return(t, Result("error", "resize", <<logTmp[t]>>))
       \/ Return(t, Result("ok", "", <<logTmp[t]>>))
    /\ UNCHANGED <<sessionState, ops, logs, shots, images, ui>>

\* the rest of SaveScreenshot and of screenshotRun:
\* b.screenshotsMutex.Unlock(); return id; then, when b.maxImageDimension > 0,
\* imageutil.ResizeImage, whose error is returned; else the result with the id
Shot_Finish(t) ==
    /\ pc[t] = "shot_unlock"
    /\ screenshotsMutex' = Nil
    /\ logTmp' = [logTmp EXCEPT ![t] = 0]
    /\ \/ Return(t, Result("error", "resize", <<logTmp[t]>>))
       \/ Return(t, Result("ok", "", <<logTmp[t]>>))
    /\ UNCHANGED <<sessionState, ops, logs, screenshots, files, nextShot, images, ui>>

\* ============================================================ images
\* createTestPNG(t, width, height): the bytes of a decodable PNG of that size
createTestPNG(width, height) ==
    [w |-> width, h |-> height, decodes |-> TRUE, reencoded |-> FALSE]

\* the table of TestResizeImage
tests ==
    {[width |-> 800, height |-> 600, maxDim |-> 2000, wantResize |-> FALSE],
     [width |-> 2000, height |-> 2000, maxDim |-> 2000, wantResize |-> FALSE],
     [width |-> 3000, height |-> 1000, maxDim |-> 2000, wantResize |-> TRUE],
     [width |-> 1000, height |-> 3000, maxDim |-> 2000, wantResize |-> TRUE],
     [width |-> 3000, height |-> 3000, maxDim |-> 2000, wantResize |-> TRUE]}

\* the image bytes and configured dimensions normalisation is tried with:
\* every small size, decodable or not, under every small bound, and the
\* cases of the test table
ResizeCases ==
    {[image |-> [w |-> a, h |-> b, decodes |-> d, reencoded |-> FALSE], maxDim |-> m] :
        a \in 1..MaxSide, b \in 1..MaxSide, d \in BOOLEAN, m \in -1..MaxDimension}
    \cup {[image |-> createTestPNG(tc.width, tc.height), maxDim |-> tc.maxDim] :
             tc \in tests}

\* a ResizeImage that looks at the width only
ResizeImageWidthOnly(data, maxDim) ==
    IF maxDim <= 0
    THEN [data |-> data, format |-> "png", resized |-> FALSE, err |-> FALSE]
    ELSE IF ~data.decodes
    THEN [data |-> data, format |-> "", resized |-> FALSE, err |-> TRUE]
    ELSE IF data.w > maxDim
    THEN [data |-> [w |-> maxDim, h |-> data.h, decodes |-> TRUE, reencoded |-> TRUE],
          format |-> "png", resized |-> TRUE, err |-> FALSE]
    ELSE [data |-> data, format |-> "png", resized |-> FALSE, err |-> FALSE]

\* imageutil.ResizeImage(data, maxDim) -> (bytes, format, didResize, error):
\* a bound <= 0 passes the bytes through; otherwise the bytes are decoded
\* (failure is an error) and, when a side exceeds the bound, scaled down,
\* keeping the aspect ratio, so that the longer side equals the bound (a side
\* never shrinks below one pixel); bytes that fit are returned as they came
ResizeImage(data, maxDim) ==
    LET longer == IF data.w >= data.h THEN data.w ELSE data.h
        scaled(side) == IF side = longer THEN maxDim
                        ELSE IF (side * maxDim) \div longer < 1 THEN 1
                        ELSE (side * maxDim) \div longer
    IN  IF maxDim <= 0
        THEN [data |-> data, format |-> "png", resized |-> FALSE, err |-> FALSE]
        ELSE IF ~data.decodes
        THEN [data |-> data, format |-> "", resized |-> FALSE, err |-> TRUE]
        ELSE IF data.w > maxDim \/ data.h > maxDim
        THEN [data |-> [w |-> scaled(data.w), h |-> scaled(data.h),
                        decodes |-> TRUE, reencoded |-> TRUE],
              format |-> "png", resized |-> TRUE, err |-> FALSE]
        ELSE [data |-> data, format |-> "png", resized |-> FALSE, err |-> FALSE]

\* a caller that passes a bound one pixel too small
normalizeBelowBound(data) ==
    IF maxImageDimension > 0
    THEN ResizeImage(data, maxImageDimension - 1)
    ELSE [data |-> data, format |-> "png", resized |-> FALSE, err |-> FALSE]

\* imageData := buf; format := "png"; resized := false
\* if b.maxImageDimension > 0 { imageData, format, resized, err =
\*     imageutil.ResizeImage(buf, b.maxImageDimension) }
normalize(data) ==
    IF maxImageDimension > 0
    THEN ResizeImage(data, maxImageDimension)
    ELSE [data |-> data, format |-> "png", resized |-> FALSE, err |-> FALSE]

\* description := fmt.Sprintf(...); if resized { description += " [resized]" }
description(base, resized) ==
    IF resized THEN <<base, "[resized]">> ELSE <<base>>

\* the result a handler builds from image bytes: the resize error, or the
\* description and the image content
imageResult(o, base, data) ==
    LET n == normalize(data)
    IN  IF n.err
        THEN [op |-> o, kind |-> "error", data |-> NoImage, resized |-> FALSE,
              text |-> <<>>]
        ELSE [op |-> o, kind |-> "ok", data |-> n.data, resized |-> n.resized,
              text |-> description(base, n.resized)]

\* screenshotRun from the captured bytes to its result
screenshotResult ==
    /\ image # NoImage /\ shown = NoResult
    /\ shown' = imageResult("screenshot", "Screenshot taken", image)
    /\ UNCHANGED <<sessionState, pc, ops, calls, logs, shots, maxImageDimension, image, ui>>

\* readImageRun from the bytes read from the file to its result
readImageResult ==
    /\ image # NoImage /\ shown = NoResult
    /\ shown' = imageResult("read_image", "Image from", image)
    /\ UNCHANGED <<sessionState, pc, ops, calls, logs, shots, maxImageDimension, image, ui>>

\* ============================================================ console log
\* sync.Mutex.Lock on b.consoleLogsMutex that excludes nobody
LogLockNoExclusion(p) == consoleLogsMutex' = p

\* sync.Mutex.Lock on b.consoleLogsMutex: blocks until the mutex is free
LogLock(p) == consoleLogsMutex = Nil /\ consoleLogsMutex' = p

\* a trim that keeps the oldest entries
trimKeepsOldest(l) ==
    IF Len(l) > maxConsoleLogs THEN SubSeq(l, 1, maxConsoleLogs) ELSE l

\* if len(b.consoleLogs) > b.maxConsoleLogs
\*     { b.consoleLogs = b.consoleLogs[len(b.consoleLogs)-b.maxConsoleLogs:] }
trim(l) ==
    IF Len(l) > maxConsoleLogs
    THEN SubSeq(l, Len(l) - maxConsoleLogs + 1, Len(l))
    ELSE l

\* the listener registered by ListenTarget gets a console event of a running
\* browser and enters captureConsoleLog: b.consoleLogsMutex.Lock(), then
\* b.consoleLogs = append(b.consoleLogs, e)
CCL_Append ==
    /\ lpc = "idle"
    /\ nextEvent <= MaxEvents
    /\ \E i \in started : bCancelBy[i] = <<>> /\ aCancelBy[i] = <<>>
    /\ LogLock(Listener)
    /\ consoleLogs' = Append(consoleLogs, nextEvent)
    /\ nextEvent' = nextEvent + 1
    /\ sinceClear' = sinceClear + 1
    /\ lpc' = "ccl_trim"
    /\ UNCHANGED <<sessionState, pc, ops, calls, shots, images, ui, removed>>

\* the length test and the reslice, then the deferred
\* b.consoleLogsMutex.Unlock()
CCL_Trim ==
    /\ lpc = "ccl_trim"
    /\ consoleLogs' = trim(consoleLogs)
    /\ removed' = removed + (Len(consoleLogs) - Len(consoleLogs'))
    /\ consoleLogsMutex' = IF consoleLogsMutex = Listener THEN Nil ELSE consoleLogsMutex
    /\ lpc' = "idle"
    /\ UNCHANGED <<sessionState, pc, ops, calls, shots, images, ui, nextEvent, sinceClear>>

\* limit := 100; if input.Limit > 0 { limit = input.Limit }
effectiveLimit(L) == IF L > 0 THEN L ELSE DefaultLogLimit

\* start := 0; if len(b.consoleLogs) > limit { start = len(b.consoleLogs) - limit }
startOffset(n, limit) == IF n > limit THEN n - limit ELSE 0

\* a reslice from the front: b.consoleLogs[:len-start]
resliceFromFront(l, start) == SubSeq(l, 1, Len(l) - start)

\* b.consoleLogs[start:]; a start beyond the length panics in Go and is kept
\* here as the value <<-1>> no stored sequence has
reslice(l, start) == IF start > Len(l) THEN <<-1>> ELSE SubSeq(l, start + 1, Len(l))

\* recentConsoleLogsRun takes the log lock without waiting for it
RCL_LockNoExclusion(t) ==
    /\ pc[t] = "rcl_lock"
    /\ LogLockNoExclusion(t)
    /\ Goto(t, "rcl_start")
    /\ UNCHANGED <<mux, handles, timers, ctxs, now, locals, hist, ops, calls, shots, images, ui,
                   consoleLogs, nextEvent, lpc, sinceClear, removed>>

\* recentConsoleLogsRun: b.consoleLogsMutex.Lock()
RCL_Lock(t) ==
    /\ pc[t] = "rcl_lock"
    /\ LogLock(t)
    /\ Goto(t, "rcl_start")
    /\ UNCHANGED <<mux, handles, timers, ctxs, now, locals, hist, ops, calls, shots, images, ui,
                   consoleLogs, nextEvent, lpc, sinceClear, removed>>

\* the limit, make(..., 0, len(b.consoleLogs)) and the start offset
RCL_Start(t) ==
    /\ pc[t] = "rcl_start"
    /\ logTmp' = [logTmp EXCEPT ![t] =
                     startOffset(Len(consoleLogs), effectiveLimit(arg[t].limit))]
    /\ Goto(t, "rcl_copy")
    /\ UNCHANGED <<mux, handles, timers, ctxs, now, locals, hist, ops, op, arg, out,
                   opCtx, logs, shots, images, ui>>

\* logs = append(logs, b.consoleLogs[start:]...): the copy into the fresh
\* slice; then b.consoleLogsMutex.Unlock(), and the copy is formatted and
\* returned (json.MarshalIndent does not fail on decoded protocol events)
RCL_Copy(t) ==
    /\ pc[t] = "rcl_copy"
    /\ Return(t, Result("ok", "", reslice(consoleLogs, logTmp[t])))
    /\ logTmp' = [logTmp EXCEPT ![t] = 0]
    /\ consoleLogsMutex' = IF consoleLogsMutex = t THEN Nil ELSE consoleLogsMutex
    /\ UNCHANGED <<mux, handles, timers, ctxs, now, locals, hist, ops, shots, images, ui,
                   consoleLogs, nextEvent, lpc, sinceClear, removed>>

\* clearConsoleLogsRun takes the log lock without waiting for it
CLR_LockNoExclusion(t) ==
    /\ pc[t] = "clr_lock"
    /\ LogLockNoExclusion(t)
    /\ Goto(t, "clr_count")
    /\ UNCHANGED <<mux, handles, timers, ctxs, now, locals, hist, ops, calls, shots, images, ui,
                   consoleLogs, nextEvent, lpc, sinceClear, removed>>

\* clearConsoleLogsRun: b.consoleLogsMutex.Lock()
CLR_Lock(t) ==
    /\ pc[t] = "clr_lock"
    /\ LogLock(t)
    /\ Goto(t, "clr_count")
    /\ UNCHANGED <<mux, handles, timers, ctxs, now, locals, hist, ops, calls, shots, images, ui,
                   consoleLogs, nextEvent, lpc, sinceClear, removed>>

\* logCount := len(b.consoleLogs)
CLR_Count(t) ==
    /\ pc[t] = "clr_count"
    /\ logTmp' = [logTmp EXCEPT ![t] = Len(consoleLogs)]
    /\ Goto(t, "clr_empty")
    /\ UNCHANGED <<mux, handles, timers, ctxs, now, locals, hist, ops, op, arg, out,
                   opCtx, logs, shots, images, ui>>

\* b.consoleLogs = make([]*runtime.EventConsoleAPICalled, 0), then
\* b.consoleLogsMutex.Unlock() and "Cleared %d console log entries."
CLR_Empty(t) ==
    /\ pc[t] = "clr_empty"
    /\ consoleLogs' = <<>>
    /\ sinceClear' = 0
    /\ removed' = removed + Len(consoleLogs)
    /\ Return(t, Result("ok", "", <<logTmp[t]>>))
    /\ logTmp' = [logTmp EXCEPT ![t] = 0]
    /\ consoleLogsMutex' = IF consoleLogsMutex = t THEN Nil ELSE consoleLogsMutex
    /\ UNCHANGED <<mux, handles, timers, ctxs, now, locals, hist, ops, shots, images, ui,
                   nextEvent, lpc>>

Next ==
    \/ \E t \in Threads :
          \/ CallGetBrowserContext(t)
          \/ GBC_Lock(t)
          \/ GBC_Check(t)
          \/ GBC_StartBrowser(t)
          \/ GBC_SetViewport(t)
          \/ GBC_Assign(t)
          \/ GBC_ResetTimer(t)
          \/ GBC_Return(t)
          \/ CallClose(t)
          \/ Close_Lock(t)
    \/ \E p \in Procs :
          \/ CBL_StopTimer(p)
          \/ CBL_CancelBrowser(p)
          \/ CBL_CancelAlloc(p)
          \/ CBL_Clear(p)
          \/ Unlock(p)
    \/ \E k \in Ids :
          \/ TimerFire(k)
          \/ IS_Lock(k)
          \/ IS_Check(k)
    \/ Tick

Spec == Init /\ [][Next]_vars

\* the browser context of a started attempt ends without any cancel function
\* of the manager being called: the browser process exits, or b.ctx, the
\* parent of every allocator context, is cancelled
ContextEnds(i) ==
    /\ i \in started /\ i \notin exited
    /\ bCancelBy[i] = <<>> /\ aCancelBy[i] = <<>>
    /\ exited' = exited \cup {i}
    /\ UNCHANGED <<mux, handles, timers, nextCtx, started, viewportOK, bCancelBy,
                   aCancelBy, now, pc, locals, ops, hist>>
    /\ UNCHANGED tool

\* the manager with browsers that can die on their own
NextCrash == Next \/ \E i \in Ids : ContextEnds(i)

SpecCrash == Init /\ [][NextCrash]_vars

\* the steps of process p once it is inside GetBrowserContext, Close or
\* idleShutdown: each of them runs to its end unless it waits for b.mux
Running(p) ==
    \/ /\ p \in Threads
       /\ \/ GBC_Lock(p) \/ GBC_Check(p) \/ GBC_StartBrowser(p)
          \/ GBC_SetViewport(p) \/ GBC_Assign(p) \/ GBC_ResetTimer(p)
          \/ GBC_Return(p) \/ Close_Lock(p)
    \/ /\ p \notin Threads
       /\ IS_Lock(p - NumThreads) \/ IS_Check(p - NumThreads)
    \/ CBL_StopTimer(p) \/ CBL_CancelBrowser(p) \/ CBL_CancelAlloc(p)
    \/ CBL_Clear(p) \/ Unlock(p)

\* the manager with goroutines that keep being scheduled and startup steps
\* that terminate
FairSpec == Spec /\ \A p \in Procs : WF_vars(Running(p))

\* the steps of GetBrowserContext and Close a caller thread takes
SessionStep(t) ==
    \/ GBC_Lock(t) \/ GBC_Check(t) \/ GBC_StartBrowser(t) \/ GBC_SetViewport(t)
    \/ GBC_Assign(t) \/ GBC_ResetTimer(t) \/ GBC_Return(t)
    \/ CallClose(t) \/ Close_Lock(t)

\* the steps of closeBrowserLocked, by whoever runs it, and its caller's unlock
TeardownStep ==
    \E p \in Procs :
       \/ CBL_StopTimer(p) \/ CBL_CancelBrowser(p) \/ CBL_CancelAlloc(p)
       \/ CBL_Clear(p) \/ Unlock(p)

\* time passing, timers expiring and the idleShutdown callbacks
IdleStep ==
    \/ \E k \in Ids : TimerFire(k) \/ IS_Lock(k) \/ IS_Check(k)
    \/ Tick

\* the console log under concurrency: two callers list and clear the log and
\* close the browser while the listener appends
NextLog ==
    \/ \E t \in Threads :
          \/ SessionStep(t)
          \/ recentConsoleLogsRun(t) \/ clearConsoleLogsRun(t) \/ Tool_Acquired(t)
          \/ RCL_Lock(t) \/ RCL_Start(t) \/ RCL_Copy(t)
          \/ CLR_Lock(t) \/ CLR_Count(t) \/ CLR_Empty(t)
    \/ TeardownStep
    \/ CCL_Append \/ CCL_Trim

SpecLog == Init /\ [][NextLog]_vars

\* the one caller of SpecSeq
Caller == 1

\* every tool operation, called by one caller one after the other, with the
\* listener appending beside it
NextSeq ==
    \/ SessionStep(Caller)
    \/ navigateRun(Caller) \/ resizeRun(Caller) \/ evalRun(Caller)
    \/ screenshotRun(Caller) \/ readImageRun(Caller)
    \/ recentConsoleLogsRun(Caller) \/ clearConsoleLogsRun(Caller)
    \/ Tool_Acquired(Caller) \/ Tool_Timeout(Caller) \/ Tool_Run(Caller)
    \/ Shot_Save(Caller) \/ Shot_Record(Caller) \/ Shot_Finish(Caller)
    \/ RCL_Lock(Caller) \/ RCL_Start(Caller) \/ RCL_Copy(Caller)
    \/ CLR_Lock(Caller) \/ CLR_Count(Caller) \/ CLR_Empty(Caller)
    \/ TeardownStep
    \/ CCL_Append \/ CCL_Trim

SpecSeq == Init /\ [][NextSeq]_vars

\* the screenshot registry under concurrency: two callers take screenshots
\* and close the browser
NextCapture ==
    \/ \E t \in Threads :
          \/ SessionStep(t)
          \/ screenshotRun(t) \/ Tool_Acquired(t) \/ Tool_Timeout(t) \/ Tool_Run(t)
          \/ Shot_Save(t) \/ Shot_Record(t) \/ Shot_Finish(t)
    \/ TeardownStep

SpecShot == Init /\ [][NextCapture]_vars

\* image normalisation: a manager configured with some image dimension has
\* captured or read some image bytes
InitResize ==
    /\ InitManager
    /\ InitUI
    /\ shown = NoResult
    /\ \E c \in ResizeCases : image = c.image /\ maxImageDimension = c.maxDim

NextResize == screenshotResult \/ readImageResult

SpecResize == InitResize /\ [][NextResize]_vars

\* the three locks together: two callers list and clear the console log, take
\* screenshots and close the browser while the listener appends
NextLocks ==
    \/ \E t \in Threads :
          \/ SessionStep(t)
          \/ recentConsoleLogsRun(t) \/ clearConsoleLogsRun(t)
          \/ screenshotRun(t)
          \/ Tool_Acquired(t) \/ Tool_Timeout(t) \/ Tool_Run(t)
          \/ RCL_Lock(t) \/ RCL_Start(t) \/ RCL_Copy(t)
          \/ CLR_Lock(t) \/ CLR_Count(t) \/ CLR_Empty(t)
          \/ Shot_Save(t) \/ Shot_Record(t) \/ Shot_Finish(t)
    \/ TeardownStep
    \/ CCL_Append \/ CCL_Trim

SpecLocks == Init /\ [][NextLocks]_vars

\* operations in flight against Close and the idle shutdown: two callers run
\* evaluate-script and Close, time passes, the listener appends
NextIdle ==
    \/ \E t \in Threads :
          \/ SessionStep(t)
          \/ evalRun(t) \/ Tool_Acquired(t) \/ Tool_Timeout(t) \/ Tool_Run(t)
    \/ TeardownStep
    \/ IdleStep
    \/ CCL_Append \/ CCL_Trim

SpecIdle == Init /\ [][NextIdle]_vars

\* ------------------------------------------------------ web UI, steps
\* what a step of the Monaco loader, and a step of the terminal widget,
\* leave alone
offMonaco == <<sessionState, pc, ops, calls, logs, shots, images, terminal>>
offTerminal == <<sessionState, pc, ops, calls, logs, shots, images, monaco>>

\* loadMonaco with no check for a load in flight
loadMonacoNoInFlightCheck(v) ==
    /\ loadCalls' = Append(loadCalls, [view |-> v, met |-> Met])
    /\ IF monacoInstance # Nil
       THEN /\ got' = [got EXCEPT ![v] = Resolved(monacoInstance)]
            /\ UNCHANGED <<monacoLoadPromise, loadState, imports>>
       ELSE /\ imports' = imports + 1
            /\ loadState' = [loadState EXCEPT ![imports + 1] = "pending"]
            /\ monacoLoadPromise' = LoadPromise(imports + 1)
            /\ got' = [got EXCEPT ![v] = LoadPromise(imports + 1)]
    /\ UNCHANGED monacoInstance

\* loadMonaco, called by view v: the instance if there is one, else the
\* promise kept, else a new promise whose body runs up to its import
loadMonaco(v) ==
    /\ loadCalls' = Append(loadCalls, [view |-> v, met |-> Met])
    /\ IF monacoInstance # Nil
       THEN /\ got' = [got EXCEPT ![v] = Resolved(monacoInstance)]
            /\ UNCHANGED <<monacoLoadPromise, loadState, imports>>
       ELSE IF monacoLoadPromise # NoPromise
       THEN /\ got' = [got EXCEPT ![v] = monacoLoadPromise]
            /\ UNCHANGED <<monacoLoadPromise, loadState, imports>>
       ELSE /\ imports' = imports + 1
            /\ loadState' = [loadState EXCEPT ![imports + 1] = "pending"]
            /\ monacoLoadPromise' = LoadPromise(imports + 1)
            /\ got' = [got EXCEPT ![v] = LoadPromise(imports + 1)]
    /\ UNCHANGED monacoInstance

\* the IntersectionObserver callback of view v: the view came on screen
View_Intersects(v) ==
    /\ ~isVisible[v]
    /\ isVisible' = [isVisible EXCEPT ![v] = TRUE]
    /\ UNCHANGED <<offMonaco, monacoInstance, monacoLoadPromise, loadState, imports,
                   monacoLoaded, monacoRef, got, loadCalls, loadErrors>>

\* the load effect of view v, run when isVisible or monacoLoaded changed:
\* it calls loadMonaco and chains its two callbacks on the promise
View_LoadEffect(v) ==
    /\ isVisible[v] /\ ~monacoLoaded[v]
    /\ got[v] = NoPromise
    /\ loadMonaco(v)
    /\ UNCHANGED <<offMonaco, isVisible, monacoLoaded, monacoRef, loadErrors>>

\* the n-th import delivers the module: the body stores it and its promise
\* is fulfilled with it
Import_Resolves(n) ==
    /\ loadState[n] = "pending"
    /\ monacoInstance' = n
    /\ loadState' = [loadState EXCEPT ![n] = "fulfilled"]
    /\ UNCHANGED <<offMonaco, monacoLoadPromise, imports, isVisible, monacoLoaded,
                   monacoRef, got, loadCalls, loadErrors>>

\* an import that fails and lets the next call start over
Import_RejectsForgets(n) ==
    /\ loadState[n] = "pending"
    /\ loadState' = [loadState EXCEPT ![n] = "rejected"]
    /\ monacoLoadPromise' = NoPromise
    /\ UNCHANGED <<offMonaco, monacoInstance, imports, isVisible, monacoLoaded, monacoRef,
                   got, loadCalls, loadErrors>>

\* the n-th import fails: the await throws, the body stores nothing and its
\* promise is rejected; monacoLoadPromise keeps that promise
Import_Rejects(n) ==
    /\ loadState[n] = "pending"
    /\ loadState' = [loadState EXCEPT ![n] = "rejected"]
    /\ UNCHANGED <<offMonaco, monacoInstance, monacoLoadPromise, imports, isVisible,
                   monacoLoaded, monacoRef, got, loadCalls, loadErrors>>

\* the then-callback of view v
View_Then(v) ==
    /\ ~monacoLoaded[v]
    /\ Settled(got[v]) = "fulfilled"
    /\ monacoRef' = [monacoRef EXCEPT ![v] = got[v].id]
    /\ monacoLoaded' = [monacoLoaded EXCEPT ![v] = TRUE]
    /\ UNCHANGED <<offMonaco, monacoInstance, monacoLoadPromise, loadState, imports,
                   isVisible, got, loadCalls, loadErrors>>

\* the catch-callback of view v
View_Catch(v) ==
    /\ v \notin loadErrors
    /\ Settled(got[v]) = "rejected"
    /\ loadErrors' = loadErrors \cup {v}
    /\ UNCHANGED <<offMonaco, monacoInstance, monacoLoadPromise, loadState, imports,
                   isVisible, monacoLoaded, monacoRef, got, loadCalls>>

Handled(ev, m) == received' = Append(received, [ev |-> ev, msg |-> m])

\* ws.onopen: send the init frame, status running
ws_onopen ==
    /\ readyState = "connecting"
    /\ readyState' = "open"
    /\ status' = "running"
    /\ Handled("open", NoMsg)
    /\ UNCHANGED <<offTerminal, exitCode>>

\* ws.onmessage for frame m: output is written to the terminal, exit sets
\* the code and the status, error sets the status; a frame that does not
\* parse is logged
ws_onmessage(m) ==
    /\ readyState = "open"
    /\ Len(received) < MaxFrames
    /\ Handled("message", m)
    /\ IF m.type = "exit"
       THEN exitCode' = OrZero(parseInt(m.data)) /\ status' = "exited"
       ELSE IF m.type = "error"
       THEN status' = "error" /\ UNCHANGED exitCode
       ELSE UNCHANGED <<status, exitCode>>
    /\ UNCHANGED <<offTerminal, readyState>>

\* ws.onerror: logged; the close event follows
ws_onerror ==
    /\ readyState # "closed"
    /\ \A i \in 1..Len(received) : received[i].ev # "error"
    /\ Handled("error", NoMsg)
    /\ UNCHANGED <<offTerminal, status, exitCode, readyState>>

\* a close handler that keeps an error status
ws_oncloseKeepsError ==
    /\ readyState # "closed"
    /\ readyState' = "closed"
    /\ status' = IF status \in {"exited", "error"} THEN status ELSE "exited"
    /\ Handled("close", NoMsg)
    /\ UNCHANGED <<offTerminal, exitCode>>

\* ws.onclose: status exited unless it already is
ws_onclose ==
    /\ readyState # "closed"
    /\ readyState' = "closed"
    /\ status' = IF status = "exited" THEN status ELSE "exited"
    /\ Handled("close", NoMsg)
    /\ UNCHANGED <<offTerminal, exitCode>>

\* the header shows "exit <code>" when the status is exited; a null code
\* renders as nothing
ExitCodeShown == status = "exited" /\ exitCode # null

\* one page: diff views come on screen and load Monaco
NextMonaco ==
    \/ \E v \in Views :
          \/ View_Intersects(v) \/ View_LoadEffect(v)
          \/ View_Then(v) \/ View_Catch(v)
    \/ \E n \in Views : Import_Resolves(n) \/ Import_Rejects(n)

SpecMonaco == Init /\ [][NextMonaco]_vars

\* one terminal widget and its socket
NextTerminal ==
    \/ ws_onopen
    \/ \E m \in Frames : ws_onmessage(m)
    \/ ws_onerror
    \/ ws_onclose

SpecTerminal == Init /\ [][NextTerminal]_vars

\* ---------------------------------------------------------- typing
TypeOK ==
    /\ mux \in {Nil} \cup Procs
    /\ allocCtx \in {Nil} \cup Ids /\ allocCancel \in {Nil} \cup Ids
    /\ browserCtx \in {Nil} \cup Ids /\ browserCtxCancel \in {Nil} \cup Ids
    /\ idleTimer \in {Nil} \cup Ids
    /\ timerState \in [Ids -> {"none", "armed", "stopped", "fired"}]
    /\ nextTimer \in 1..(MaxOps + 1) /\ nextCtx \in 1..(MaxOps + 1)
    /\ started \subseteq Ids /\ viewportOK \subseteq started
    /\ now \in 0..MaxTime
    /\ ops \in 0..MaxOps
    /\ ret \in [Threads -> {Nil, Err} \cup Ids]

\* ================================================================ claims
\* browsers whose process was started and that nobody has cancelled
LiveBrowsers == {i \in started : bCancelBy[i] = <<>> /\ aCancelBy[i] = <<>>}
\* no Session has been torn down so far
NoTeardownYet == \A j \in 1..Len(events) : events[j] = "start"
\* no startup attempt has failed so far
NoFailedStart == \A i \in Ids : aCancelBy[i] # <<>> => i \in viewportOK
\* the four handle fields are all nil
HandlesAbsent ==
    allocCtx = Nil /\ allocCancel = Nil /\ browserCtx = Nil /\ browserCtxCancel = Nil
\* the four handle fields all hold attempt i
HandlesAre(i) ==
    allocCtx = i /\ allocCancel = i /\ browserCtx = i /\ browserCtxCancel = i
\* context.WithCancel parent/child: the browser context of attempt i is done
\* once its own cancel or the cancel of its parent allocator context was called
BrowserCtxDone(i) == bCancelBy[i] # <<>> \/ aCancelBy[i] # <<>> \/ i \in exited

\* C1: at most one started-and-not-cancelled browser exists in every state;
\* while no Session has been torn down all successful GetBrowserContext calls
\* returned the same Session, and if moreover no startup failed exactly one
\* startup attempt (one process start) has been made however the calls interleave.
C1_AtMostOneSession ==
    /\ Cardinality(LiveBrowsers) <= 1
    /\ NoTeardownYet =>
          /\ Len(events) <= 1
          /\ \A t1, t2 \in Threads :
                (ret[t1] \in Ids /\ ret[t2] \in Ids) => ret[t1] = ret[t2]
    /\ (NoTeardownYet /\ NoFailedStart) =>
          /\ Cardinality(started) <= 1
          /\ nextCtx <= 2

\* two calls in flight at once, one has started the browser, the other waits
C1_Witness ==
    /\ pc[1] = "gbc_ret" /\ ret[1] = 1 /\ events = <<"start">>
    /\ pc[2] = "gbc_lock"

\* C2: the idle mechanism tears the Session down only if some gap between
\* consecutive successful GetBrowserContext calls, or the time since the last
\* one, has reached IdleTimeout.
C2_IdleResetMonotone ==
    \A k \in Ids :
        pc[Cb(k)] \in {"cl_timer", "cl_browser", "cl_alloc", "cl_clear"} =>
            (gapExceeded \/ now - lastAcq >= IdleTimeout)

\* two accesses less than IdleTimeout apart; the first deadline has passed and
\* the Session is still there
C2_Witness ==
    /\ ~gapExceeded /\ events = <<"start">> /\ browserCtx = 1
    /\ timerState[1] = "stopped" /\ now >= timerDeadline[1]
    /\ timerState[2] = "armed" /\ now - lastAcq < IdleTimeout

\* C3: when the viewport step fails GetBrowserContext returns the error with
\* all four handle fields and the timer field nil, and the failed attempt is
\* never stored in the manager nor returned by any later call.
C3_StartupRollback ==
    /\ \A t \in Threads :
          (pc[t] = "gbc_ret" /\ failedAt[t] = "viewport") =>
              (ret[t] = Err /\ HandlesAbsent /\ idleTimer = Nil)
    /\ \A i \in Ids :
          (i \in started /\ i \notin viewportOK /\ BrowserCtxDone(i)) =>
              /\ i \notin {allocCtx, allocCancel, browserCtx, browserCtxCancel}
              /\ \A t \in Threads : ret[t] # i

\* attempt 1 failed at the viewport step and a later call started attempt 2
C3_Witness ==
    /\ 1 \in started /\ 1 \notin viewportOK /\ bCancelBy[1] # <<>>
    /\ \E t \in Threads : ret[t] = 2 /\ browserCtx = 2

\* C4 as stated: when GetBrowserContext returns an error, the cancel function
\* of the browser context and that of the allocator have both been called.
C4_BothCancelsCalled ==
    \A t \in Threads :
        (pc[t] = "gbc_ret" /\ ret[t] = Err) =>
            (bCancelBy[loc[t]] # <<>> /\ aCancelBy[loc[t]] # <<>>)

\* C4 amended: when GetBrowserContext returns an error the allocator's cancel
\* function has been called exactly once, which also ends the browser context
\* derived from it; the browser context's own cancel function has been called
\* when the viewport step failed, not when the process start failed.
C4_ReleasedOnFailure ==
    \A t \in Threads :
        (pc[t] = "gbc_ret" /\ ret[t] = Err) =>
            /\ aCancelBy[loc[t]] = <<t>>
            /\ BrowserCtxDone(loc[t])
            /\ loc[t] \notin LiveBrowsers
            /\ (failedAt[t] = "viewport" <=> bCancelBy[loc[t]] = <<t>>)
            /\ (failedAt[t] = "start" <=> bCancelBy[loc[t]] = <<>>)

\* a call returning the error of a failed process start
C4_Witness ==
    \E t \in Threads :
        pc[t] = "gbc_ret" /\ ret[t] = Err /\ failedAt[t] = "start"

\* C5: whenever b.mux is free the four handle fields are all nil or all hold
\* the same Session, and every Session a call returned completed both the
\* process start and the viewport step.
C5_NoPartialSession ==
    /\ mux = Nil => (HandlesAbsent \/ \E i \in Ids : HandlesAre(i))
    /\ \A t \in Threads :
          ret[t] \in Ids => (ret[t] \in started /\ ret[t] \in viewportOK)

\* the lock is free after a Session was torn down and a second one built
C5_Witness ==
    /\ mux = Nil /\ HandlesAre(2)
    /\ Len(events) = 3
\* the positions inside closeBrowserLocked
InClose == {"cl_timer", "cl_browser", "cl_alloc", "cl_clear"}
\* the timers that are pending: armed and not yet fired or stopped
Armed == {k \in Ids : timerState[k] = "armed"}
\* how often process p called a browser-context cancel function
BrowserCancelsBy(p) ==
    Cardinality({x \in Ids \X (1..MaxOps) :
                    x[2] <= Len(bCancelBy[x[1]]) /\ bCancelBy[x[1]][x[2]] = p})
\* how often process p called an allocator cancel function
AllocCancelsBy(p) ==
    Cardinality({x \in Ids \X (1..MaxOps) :
                    x[2] <= Len(aCancelBy[x[1]]) /\ aCancelBy[x[1]][x[2]] = p})

\* C6: at the moment GetBrowserContext returns a Session (still holding
\* b.mux), no cancel function of that Session has been called, whatever Close
\* or idleShutdown ran before or is waiting to run; it is the manager's
\* current Session, so a call after a teardown returns a newly started one.
C6_NotHalfTornDown ==
    \A t \in Threads :
        (pc[t] = "gbc_ret" /\ ret[t] \in Ids) =>
            /\ bCancelBy[ret[t]] = <<>> /\ aCancelBy[ret[t]] = <<>>
            /\ HandlesAre(ret[t])
            /\ ret[t] \in LiveBrowsers

\* a call returns the second Session, started after a Close tore down the
\* first, while an expired idle callback is waiting for the lock
C6_Witness ==
    \E t \in Threads, k \in Ids :
        /\ pc[t] = "gbc_ret" /\ ret[t] = 2
        /\ events = <<"start", "close", "start">>
        /\ pc[Cb(k)] = "is_lock"

\* C7: at most one idle timer is pending in every state, and it is the one
\* b.idleTimer holds, the most recently created one.
C7_AtMostOneDeadline ==
    /\ Cardinality(Armed) <= 1
    /\ \A k \in Armed : k = idleTimer /\ k = nextTimer - 1

\* a second access replaced the first deadline: timer 1 stopped, timer 2 armed
C7_Witness ==
    /\ timerState[1] = "stopped" /\ timerState[2] = "armed"
    /\ idleTimer = 2 /\ browserCtx = 1

\* C8 as stated: whenever b.mux is free, a timer is armed (pending, not yet
\* fired) if and only if a Session exists.
C8_ArmedIffSession ==
    mux = Nil => (Armed # {} <=> browserCtx # Nil)

\* C8 amended: whenever b.mux is free, the manager holds a timer if and only
\* if a Session exists; that timer is armed, or it has expired and its
\* callback is still waiting for the lock; no other timer is armed; a call
\* returning a startup error leaves no timer held or armed.
C8_TimerFollowsSession ==
    /\ mux = Nil =>
          /\ idleTimer # Nil <=> browserCtx # Nil
          /\ Armed \subseteq {idleTimer}
          /\ idleTimer # Nil =>
                \/ timerState[idleTimer] = "armed"
                \/ /\ timerState[idleTimer] = "fired"
                   /\ pc[Cb(idleTimer)] = "is_lock"
    /\ \A p \in Procs : pc[p] = "unlock" => (idleTimer = Nil /\ Armed = {})
    /\ \A t \in Threads :
          (pc[t] = "gbc_ret" /\ ret[t] = Err) => (idleTimer = Nil /\ Armed = {})

\* the lock is free, a Session exists and its timer has expired
C8_Witness ==
    /\ mux = Nil /\ browserCtx # Nil
    /\ idleTimer # Nil /\ timerState[idleTimer] = "fired"

\* C9: the callback of one expiry calls the cancel functions of at most one
\* Session, each at most once; it enters closeBrowserLocked only when a
\* Session is present, so with the Session absent it changes nothing; and
\* there are never more idle teardowns than expired timers.
C9_OneClosePerExpiry ==
    /\ \A k \in Ids :
          /\ BrowserCancelsBy(Cb(k)) <= 1
          /\ AllocCancelsBy(Cb(k)) <= 1
          /\ pc[Cb(k)] \in InClose => browserCtx # Nil
          /\ pc[Cb(k)] = "none" => BrowserCancelsBy(Cb(k)) = 0
    /\ Cardinality({j \in 1..Len(events) : events[j] = "idle"})
          <= Cardinality({k \in Ids : timerState[k] = "fired"})

\* the callback of timer 1 tore down Session 1 and finished
C9_Witness ==
    \E k \in Ids :
        /\ pc[Cb(k)] = "done"
        /\ bCancelBy[1] = <<Cb(k)>> /\ aCancelBy[1] = <<Cb(k)>>
        /\ events = <<"start", "idle">>

\* C10: Session starts and teardowns strictly alternate, beginning with a
\* start; a Session is present exactly after a start that has not been
\* followed by a teardown; every start stores a browser that was never
\* cancelled before.
C10_Lifecycle ==
    /\ \A j \in 1..Len(events) : (events[j] = "start") <=> (j % 2 = 1)
    /\ browserCtx # Nil <=> Len(events) % 2 = 1
    /\ \A t \in Threads :
          pc[t] = "gbc_reset" => (browserCtx = loc[t] /\ loc[t] \in LiveBrowsers)

\* a Session was started, torn down by idle expiry, and a new one started
C10_Witness ==
    /\ events = <<"start", "idle", "start">>
    /\ browserCtx = 2 /\ mux = Nil

\* ---------------------------------------------------------- console log
Min(a, b) == IF a < b THEN a ELSE b
\* the last k entries of l, in order
LastK(l, k) == [j \in 1..k |-> l[Len(l) - k + j]]
\* the limit list-console-logs applies for the input limit L
LimitFor(L) == IF L <= 0 THEN DefaultLogLimit ELSE L

\* C11: whenever the listener is outside captureConsoleLog, the console log
\* has at most maxConsoleLogs entries, and they are the most recent
\* min(n, maxConsoleLogs) of the n events appended since the last clear, in
\* arrival order (events are numbered in arrival order, the newest is
\* nextEvent - 1).
C11_RingBuffer ==
    lpc = "idle" =>
        /\ Len(consoleLogs) <= maxConsoleLogs
        /\ Len(consoleLogs) = Min(sinceClear, maxConsoleLogs)
        /\ \A j \in 1..Len(consoleLogs) :
              consoleLogs[j] = nextEvent - 1 - Len(consoleLogs) + j

\* maxConsoleLogs + 1 events arrived with no clear, the oldest was evicted
C11_Witness ==
    /\ lpc = "idle"
    /\ sinceClear = maxConsoleLogs + 1
    /\ Len(consoleLogs) = maxConsoleLogs
    /\ consoleLogs[1] = 2

\* C12: the step of list-console-logs that returns, for input limit L (L <= 0
\* or missing meaning DefaultLogLimit), returns min(L, stored count) events,
\* they are the last ones stored in their stored order, and the stored
\* sequence is unchanged by it.
C12_SnapshotLimit ==
    [][\A t \in Threads :
          (pc[t] = "rcl_copy" /\ pc'[t] = "idle") =>
              LET k == Min(LimitFor(arg[t].limit), Len(consoleLogs))
              IN /\ out'.who = t /\ out'.kind = "ok"
                 /\ out'.val = LastK(consoleLogs, k)
                 /\ consoleLogs' = consoleLogs]_vars

\* a call with limit 1 returned the newer one of two stored events
C12_Witness ==
    /\ out.kind = "ok" /\ out.val = <<2>>
    /\ consoleLogs = <<1, 2>>
    /\ \E t \in Threads : out.who = t /\ pc[t] = "idle" /\ lpc = "idle"

\* C13: the step of clear-console-logs that returns reports the number of
\* events stored immediately before it and leaves the console log empty, so
\* that a snapshot with no append in between is empty.
C13_ClearExact ==
    [][\A t \in Threads :
          (pc[t] = "clr_empty" /\ pc'[t] = "idle") =>
              /\ out'.who = t /\ out'.kind = "ok"
              /\ out'.val = <<Len(consoleLogs)>>
              /\ consoleLogs' = <<>>]_vars

\* a clear reported two events and left the log empty
C13_Witness ==
    /\ out.kind = "ok" /\ out.val = <<2>>
    /\ consoleLogs = <<>> /\ sinceClear = 0 /\ removed = 2

C15_LogsSurviveTeardown ==
    /\ nextEvent - 1 = Len(consoleLogs) + removed
    /\ \A j \in 1..Len(consoleLogs) :
          consoleLogs[j] = nextEvent - 1 - Len(consoleLogs) + j

\* the Session was torn down by the idle shutdown, the startup of a new one
\* is under way, and the event of the old browser is still in the log
C15_Witness ==
    /\ Len(events) = 2 /\ events[2] = "idle"
    /\ consoleLogs = <<1>> /\ removed = 0
    /\ \E t \in Threads : pc[t] = "gbc_start" /\ loc[t] = 2

\* ------------------------------------------------------- tool dispatch
\* the port number a port string denotes
PortNumber(p) ==
    CASE p = "80" -> 80
      [] p = "080" -> 80
      [] p = "8080" -> 8080
      [] OTHER -> 0

\* C16: a navigate call whose URL is http with no explicit port, or has the
\* explicit port 80, never gets as far as acquire: no navigate in flight has
\* such a URL.
C16_Port80Rejected ==
    \A t \in Threads :
        op[t] = "navigate" =>
            /\ ~(arg[t].scheme = "http" /\ arg[t].port = "")
            /\ ~(arg[t].port # "" /\ PortNumber(arg[t].port) = 80)

\* the manager's Session, its idle timer and every context ever created
SessionFrame == <<mux, handles, timers, ctxs>>

\* C17: no resize-viewport call gets as far as acquire with a width or height
\* that is not positive, and a step that returns an input error leaves the
\* Session, the idle timer, the console log and the screenshot registry
\* unchanged and starts no browser.
C17_InputErrorsTouchNothing ==
    [][/\ \A t \in Threads :
             op'[t] = "resize" => (arg'[t].w > 0 /\ arg'[t].h > 0)
       /\ (out' # out /\ out'.kind = "error" /\ out'.why = "input") =>
             /\ UNCHANGED <<SessionFrame, consoleLogs, screenshots, files, ops>>
             /\ \A t \in Threads : pc[t] = "idle" <=> pc'[t] = "idle"]_vars

\* an input error was returned while a Session with an armed idle timer, a
\* captured console event and a recorded screenshot exist
C17_Witness ==
    /\ out.kind = "error" /\ out.why = "input"
    /\ browserCtx # Nil /\ idleTimer # Nil /\ timerState[idleTimer] = "armed"
    /\ consoleLogs # <<>> /\ screenshots # {}
    /\ pc[Caller] = "idle"

\* C18: a step in which the protocol call of navigate, resize-viewport,
\* evaluate-script or screenshot fails (by itself or because its timeout
\* expired), or in which saving the screenshot fails, returns an error and
\* leaves the manager's Session, its timer and every context unchanged; an
\* acquire that finds a Session stored returns it without creating a browser.
C18_OpErrorsKeepSession ==
    [][\A t \in Threads :
          /\ (pc[t] \in {"op_run", "shot_save", "shot_unlock"} /\ pc'[t] = "idle"
                /\ out'.kind = "error") =>
                UNCHANGED SessionFrame
          /\ (pc[t] = "gbc_check" /\ browserCtx # Nil) =>
                (ret'[t] = browserCtx /\ UNCHANGED <<handles, ctxs>>)]_vars

\* the first operation failed, and the second one runs on the same Session:
\* one browser was ever created
C18_Witness ==
    /\ out.kind = "error" /\ out.why = "op"
    /\ pc[Caller] = "op_run" /\ ops = 2
    /\ ret[Caller] = 1 /\ browserCtx = 1 /\ nextCtx = 2
    /\ bCancelBy[1] = <<>> /\ aCancelBy[1] = <<>>

\* C19: the expiry of one operation's timeout context cancels no browser and
\* no other operation's context; a stored Session is cancelled only inside
\* closeBrowserLocked (run by Close or by the idle shutdown); and no protocol
\* call succeeds on a Session that has been cancelled.
C19_OneDirectional ==
    [][\A t \in Threads :
          /\ (opCtx[t].st = "live" /\ opCtx'[t].st = "expired") =>
                /\ UNCHANGED SessionFrame
                /\ \A u \in Threads \ {t} : opCtx'[u] = opCtx[u]
          /\ (browserCtx # Nil /\ (bCancelBy'[browserCtx] # bCancelBy[browserCtx]
                                    \/ aCancelBy'[browserCtx] # aCancelBy[browserCtx])) =>
                \E p \in Procs : pc[p] \in {"cl_browser", "cl_alloc"} /\ mux = p
          /\ (pc[t] = "op_run" /\ pc'[t] = "idle" /\ out'.kind = "ok") =>
                (bCancelBy[ret[t]] = <<>> /\ aCancelBy[ret[t]] = <<>>)]_vars

\* one operation's timeout has expired while the other operation, on the
\* same live Session, still has its context
C19_Witness ==
    /\ pc[1] = "op_run" /\ opCtx[1].st = "expired"
    /\ pc[2] = "op_run" /\ opCtx[2].st = "live"
    /\ ret[1] = ret[2] /\ browserCtx = ret[1]
    /\ bCancelBy[ret[1]] = <<>> /\ aCancelBy[ret[1]] = <<>>

\* C20: Close and the idle shutdown wait for the manager lock only: with the
\* lock free they can take it, and inside closeBrowserLocked every step can
\* be taken, whatever operations are in flight; and a protocol call in
\* flight can always return, also after its Session was torn down.
C20_BestEffortReaper ==
    /\ \A t \in Threads :
          /\ (pc[t] = "close_lock" /\ mux = Nil) => ENABLED Close_Lock(t)
          /\ pc[t] = "op_run" => ENABLED Tool_Run(t)
    /\ \A k \in Ids :
          (pc[Cb(k)] = "is_lock" /\ mux = Nil) => ENABLED IS_Lock(k)
    /\ \A p \in Procs :
          /\ pc[p] = "cl_timer" => ENABLED CBL_StopTimer(p)
          /\ pc[p] = "cl_browser" => ENABLED CBL_CancelBrowser(p)
          /\ pc[p] = "cl_alloc" => ENABLED CBL_CancelAlloc(p)
          /\ pc[p] = "cl_clear" => ENABLED CBL_Clear(p)
          /\ pc[p] = "unlock" => ENABLED Unlock(p)

\* an operation is still in flight on a Session the idle shutdown has torn down
C20_Witness ==
    \E k \in Ids, t \in Threads :
        /\ pc[t] = "op_run" /\ bCancelBy[ret[t]] = <<Cb(k)>>

\* ------------------------------------------------- acquire before acting
\* the positions of a handler after its GetBrowserContext call returned
PostAcquire ==
    {"acquired", "op_run", "shot_save", "shot_record", "shot_unlock",
     "rcl_lock", "rcl_start", "rcl_copy", "clr_lock", "clr_count", "clr_empty"}
\* the results of input validation
ValidationErrors == {"input", "port80"}

AtLog == {"rcl_lock", "rcl_start", "rcl_copy", "clr_lock", "clr_count", "clr_empty"}

\* C22: list-console-logs and clear-console-logs are at the console log only
\* with a Session that GetBrowserContext returned to them, and when their
\* GetBrowserContext call returns a Session, that Session is stored, its
\* browser was started, and the idle timer is armed with a full idle timeout
\* counted from the time of this call's reset.
C22_LogOpsKeepAlive ==
    \A t \in Threads :
        /\ pc[t] \in AtLog => (op[t] \in {"logs", "clear"} /\ ret[t] \in started)
        /\ (pc[t] = "gbc_ret" /\ op[t] \in {"logs", "clear"} /\ ret[t] # Err) =>
              /\ mux = t /\ browserCtx = ret[t] /\ ret[t] \in started
              /\ idleTimer # Nil /\ timerState[idleTimer] = "armed"
              /\ timerDeadline[idleTimer] = lastAcq + IdleTimeout

\* a console-log operation found the Session of an earlier call and set its
\* idle timer anew: one browser, the first timer stopped, the second armed
C22_Witness ==
    \E t \in Threads :
        /\ pc[t] = "gbc_ret" /\ op[t] \in {"logs", "clear"}
        /\ ret[t] = 1 /\ nextCtx = 2
        /\ timerState[1] = "stopped" /\ idleTimer = 2 /\ timerState[2] = "armed"

\* ------------------------------------------------------------------ C23
\* C23: a Screenshot record is created only by a screenshot call that
\* succeeds: a step in which a screenshot call returns an error adds no
\* identifier to the screenshot registry, and the identifier that call saved
\* is not in the registry afterwards.
C23_RecordOnlyOnSuccess ==
    [][\A t \in Threads :
          (pc[t] # "idle" /\ pc'[t] = "idle" /\ op[t] = "screenshot"
             /\ out'.who = t /\ out'.kind = "error") =>
             /\ screenshots' = screenshots
             /\ \A i \in 1..Len(out'.val) : out'.val[i] \notin screenshots']_vars

\* ------------------------------------------------------------------ C24
\* C24: every recorded identifier has a fully written file, and a save whose
\* write fails makes the screenshot call return an error in that step, with
\* the registry, the files and the Session left as they were.
C24_SaveFailureNoRecord ==
    [][/\ screenshots' \subseteq files'
       /\ \A t \in Threads :
             (pc[t] = "shot_save" /\ pc'[t] # "shot_save") =>
                \/ /\ pc'[t] = "shot_record"
                   /\ logTmp'[t] \in files' \ files
                   /\ screenshots' = screenshots
                \/ /\ pc'[t] = "idle"
                   /\ out' = [who |-> t, op |-> "screenshot", kind |-> "error",
                              why |-> "save", val |-> <<>>]
                   /\ screenshots' = screenshots /\ files' = files
                   /\ SessionFrame' = SessionFrame /\ mux # t]_vars

\* a save failed while the other caller's earlier screenshot stays recorded
\* and the browser it was taken with is still the stored one
C24_Witness ==
    /\ out.op = "screenshot" /\ out.why = "save"
    /\ screenshots = {1} /\ files = {1} /\ nextShot = 3
    /\ browserCtx = 1

\* ------------------------------------------------------------------ C25
\* C25: screenshot identifiers are never reused: every successful save
\* writes a path no earlier save wrote and holds an identifier no other save
\* in flight holds, every record adds one new identifier to the registry, and
\* no step removes a file or a record.
C25_IdsNeverReused ==
    [][/\ screenshots \subseteq screenshots' /\ files \subseteq files'
       /\ \A t \in Threads :
             /\ (pc[t] = "shot_save" /\ pc'[t] = "shot_record") =>
                   /\ logTmp'[t] \notin files
                   /\ files' = files \cup {logTmp'[t]}
                   /\ \A u \in Threads \ {t} :
                         pc[u] \in {"shot_record", "shot_unlock"} => logTmp[u] # logTmp'[t]
             /\ (pc[t] = "shot_record" /\ pc'[t] = "shot_unlock") =>
                   /\ logTmp[t] \notin screenshots
                   /\ screenshots' = screenshots \cup {logTmp[t]}
                   /\ Cardinality(screenshots') = Cardinality(screenshots) + 1]_vars

\* two overlapping screenshot calls: the one that saved first recorded last
C25_Witness ==
    /\ screenshots = {1, 2} /\ files = {1, 2}
    /\ out.op = "screenshot" /\ out.kind = "ok" /\ out.val = <<1>>

\* ------------------------------------------------------------------ C26
\* C26: the manager stays usable after a failure: once a call has returned
\* an error the manager lock is free whenever the caller is outside
\* GetBrowserContext and Close, a later GetBrowserContext gets the lock
\* without blocking, a stored browser it finds is a started, uncancelled one,
\* and a browser it starts is a fresh one that no earlier failure cancelled.
C26_UsableAfterFailure ==
    out.kind = "error" =>
       /\ pc[Caller] \in ({"idle", "gbc_lock"} \cup PostAcquire) => mux = Nil
       /\ pc[Caller] = "gbc_lock" => ENABLED GBC_Lock(Caller)
       /\ (pc[Caller] = "gbc_check" /\ browserCtx # Nil) =>
             /\ browserCtx \in started \cap viewportOK
             /\ bCancelBy[browserCtx] = <<>> /\ aCancelBy[browserCtx] = <<>>
       /\ pc[Caller] = "gbc_start" =>
             /\ loc[Caller] \notin started
             /\ bCancelBy[loc[Caller]] = <<>> /\ aCancelBy[loc[Caller]] = <<>>

\* a call failed because the browser did not start, and the next call's
\* acquire started a second browser and returned it
C26_Witness ==
    /\ out.kind = "error" /\ out.why = "start"
    /\ pc[Caller] = "acquired" /\ ret[Caller] = 2
    /\ browserCtx = 2 /\ 2 \in started /\ 1 \notin started
    /\ mux = Nil

\* ------------------------------------------------------------------ C27
\* the image in hand has a side longer than the configured dimension
Exceeds ==
    image.w > maxImageDimension \/ image.h > maxImageDimension

\* C27: for decodable image bytes with a side longer than a positive bound,
\* the result is marked as resized and carries an image whose width and
\* height are both within the bound; and on the inputs of TestResizeImage the
\* resize flag is the one the test expects.
C27_ResizeBound ==
    shown # NoResult =>
       /\ (maxImageDimension > 0 /\ image.decodes /\ Exceeds) =>
             /\ shown.kind = "ok" /\ shown.resized
             /\ shown.data.w <= maxImageDimension
             /\ shown.data.h <= maxImageDimension
       /\ \A tc \in tests :
             (image = createTestPNG(tc.width, tc.height)
                /\ maxImageDimension = tc.maxDim) =>
                shown.resized = tc.wantResize

\* a screenshot taller than the bound and within it in width came out resized
C27_Witness ==
    /\ shown # NoResult /\ shown.op = "screenshot"
    /\ maxImageDimension = 3 /\ image.w = 2 /\ image.h = 4
    /\ shown.resized /\ shown.data.h = 3

InTeardown == InClose \cup {"unlock"}

\* C29: whoever tears the Session down holds the manager lock at every step
\* of it; when it comes to cancel the browser context the idle timer is
\* already stopped and dropped; when it comes to cancel the allocator the
\* browser context has been cancelled and the allocator has not; when it comes
\* to clear the Session reference both have been cancelled, once, by it, and
\* the reference is still stored; and after the clear nothing is stored.
C29_TeardownOrder ==
    \A p \in Procs :
       /\ pc[p] \in InTeardown => mux = p
       /\ pc[p] \in {"cl_browser", "cl_alloc", "cl_clear"} =>
             /\ idleTimer = Nil
             /\ \A k \in Ids : timerState[k] # "armed"
       /\ (pc[p] = "cl_browser" /\ browserCtx # Nil) =>
             /\ browserCtxCancel = browserCtx /\ allocCancel = allocCtx
             /\ bCancelBy[browserCtx] = <<>> /\ aCancelBy[allocCtx] = <<>>
       /\ (pc[p] = "cl_alloc" /\ browserCtx # Nil) =>
             /\ browserCtxCancel = Nil /\ allocCancel = allocCtx
             /\ bCancelBy[browserCtx] = <<p>> /\ aCancelBy[allocCtx] = <<>>
       /\ (pc[p] = "cl_clear" /\ browserCtx # Nil) =>
             /\ browserCtxCancel = Nil /\ allocCancel = Nil
             /\ allocCtx = browserCtx
             /\ bCancelBy[browserCtx] = <<p>> /\ aCancelBy[allocCtx] = <<p>>
       /\ pc[p] = "unlock" =>
             /\ browserCtx = Nil /\ allocCtx = Nil
             /\ browserCtxCancel = Nil /\ allocCancel = Nil /\ idleTimer = Nil

\* an idle shutdown about to clear the reference of the browser it cancelled
C29_Witness ==
    \E k \in Ids :
       /\ pc[Cb(k)] = "cl_clear" /\ mux = Cb(k)
       /\ browserCtx = 1 /\ idleTimer = Nil
       /\ bCancelBy[1] = <<Cb(k)>> /\ aCancelBy[1] = <<Cb(k)>>

\* ------------------------------------------------------------------ C30
\* C30: however many resets were made, and by whichever callers, a pending
\* timer is the one the manager holds and its deadline is one idle timeout
\* after the last reset; while that deadline has not come it is the one pending
\* timer; and a deadline that a reset replaced never runs its callback.
C30_LastResetWins ==
    /\ \A k \in Armed :
          k = idleTimer /\ timerDeadline[k] = lastAcq + IdleTimeout
    /\ (idleTimer # Nil /\ now < lastAcq + IdleTimeout) => Armed = {idleTimer}
    /\ \A k \in Ids : timerState[k] = "stopped" => pc[Cb(k)] = "none"

\* three resets at three times, none expired: the two earlier deadlines are
\* stopped and the pending one counts from the last reset
C30_Witness ==
    /\ timerState[1] = "stopped" /\ timerState[2] = "stopped"
    /\ timerState[3] = "armed"
    /\ idleTimer = 3 /\ browserCtx = 1
    /\ timerDeadline[1] < timerDeadline[2] /\ timerDeadline[2] < timerDeadline[3]
    /\ timerDeadline[3] = now + IdleTimeout

\* ------------------------------------------------------------------ C31
\* the positions of GetBrowserContext at which it holds b.mux
InAcquire ==
    {"gbc_check", "gbc_start", "gbc_viewport", "gbc_assign", "gbc_reset",
     "gbc_ret"}

C32_StaleExpiryHarmless ==
    \A k \in Ids : pc[Cb(k)] = "cl_timer" => idleTimer = k

\* ------------------------------------------------------------------ C33
\* C33: a GetBrowserContext that finds a stored Session and returns it does
\* not return one whose browser context had already ended, by the exit of
\* the browser process or the cancellation of the parent context, before the
\* call looked at it.
C33_ReturnedSessionLive ==
    [][\A t \in Threads :
          (pc[t] = "gbc_check" /\ pc'[t] = "gbc_ret") =>
             ~BrowserCtxDone(ret'[t])]_vars

\* ------------------------------------------------------------------ C34
\* the locks process p holds
LocksHeldBy(p) ==
    {l \in {"mux", "consoleLogsMutex", "screenshotsMutex"} :
        \/ l = "mux" /\ mux = p
        \/ l = "consoleLogsMutex" /\ consoleLogsMutex = p
        \/ l = "screenshotsMutex" /\ screenshotsMutex = p}

\* the positions at which a caller waits for a lock
AtLockCall == {"gbc_lock", "close_lock", "rcl_lock", "clr_lock", "shot_record"}

\* the positions at which a caller is outside every handler
AtRest == {"idle", "none", "done"}

C35_CloseIdempotent ==
    [][/\ \A i \in Ids : Len(bCancelBy'[i]) <= 1 /\ Len(aCancelBy'[i]) <= 1
       /\ \A p \in Procs :
             (pc[p] \in InClose \cup {"is_check"} /\ browserCtx = Nil
                /\ pc'[p] # pc[p]) =>
                UNCHANGED <<handles, timers, ctxs, hist>>]_vars

\* caller 1 has run a whole Close after caller 2's Close tore the Session down
C35_Witness ==
    /\ pc[1] = "unlock" /\ pc[2] = "idle" /\ ops = 3
    /\ events = <<"start", "close">>
    /\ bCancelBy[1] = <<2>> /\ aCancelBy[1] = <<2>>

\* ------------------------------------------------------------------ C36
\* C36: a list-console-logs or clear-console-logs call whose
\* GetBrowserContext returned the startup error returns that error in its
\* next step, with no events in its result, and that step leaves the stored
\* console events and the count of removed events as they were.
C36_LogOpsFailClosed ==
    [][\A t \in Threads :
          (pc[t] = "acquired" /\ op[t] \in {"logs", "clear"} /\ ret[t] = Err
             /\ pc'[t] # pc[t]) =>
             /\ pc'[t] = "idle"
             /\ out' = [who |-> t, op |-> op[t], kind |-> "error",
                        why |-> "start", val |-> <<>>]
             /\ consoleLogs' = consoleLogs /\ removed' = removed
             /\ consoleLogsMutex' = consoleLogsMutex]_vars

\* a clear returned the startup error while events captured from an earlier
\* Session are stored, and they are still there
C36_Witness ==
    /\ out.op = "clear" /\ out.kind = "error" /\ out.why = "start"
    /\ consoleLogs # <<>> /\ removed = 0
    /\ browserCtx = Nil /\ pc[out.who] = "idle"

\* C37: Monaco is imported at most once. Over any sequence of loadMonaco
\* calls, calls made while a load is in flight included, the dynamic import
\* is started at most once, and every call that resolves yields the same
\* Monaco instance: every view that loaded holds the one module stored.
C37_ImportedOnce ==
    /\ imports <= 1
    /\ \A v \in Views :
          monacoLoaded[v] => monacoInstance # Nil /\ monacoRef[v] = monacoInstance
    /\ \A v, w \in Views :
          (Settled(got[v]) = "fulfilled" /\ Settled(got[w]) = "fulfilled") =>
             got[v].id = got[w].id

\* two views called while the load was in flight, one after it, and all
\* three have loaded
C37_Witness ==
    /\ imports = 1
    /\ Len(loadCalls) = 4
    /\ loadCalls[1].met = "nothing"
    /\ loadCalls[2].met = "pending" /\ loadCalls[3].met = "pending"
    /\ loadCalls[4].met = "instance"
    /\ \A i \in 2..4 : monacoLoaded[loadCalls[i].view]

\* C38: a failed Monaco load is kept for good. Once the first import has
\* rejected, every later loadMonaco call returns that same rejected promise,
\* no new import is started, and no diff view reaches the loaded state.
C38_FailureCached ==
    loadState[1] = "rejected" =>
       /\ imports = 1
       /\ monacoLoadPromise = LoadPromise(1)
       /\ monacoInstance = Nil
       /\ \A v \in Views : ~monacoLoaded[v]
       /\ \A i \in 1..Len(loadCalls) :
             loadCalls[i].met = "rejected" =>
                /\ got[loadCalls[i].view] = LoadPromise(1)
                /\ Settled(got[loadCalls[i].view]) = "rejected"

\* the import failed, two views called loadMonaco after that, and every
\* view has run its catch-callback
C38_Witness ==
    /\ loadState[1] = "rejected"
    /\ Len(loadCalls) = NumViews
    /\ loadCalls[NumViews - 1].met = "rejected" /\ loadCalls[NumViews].met = "rejected"
    /\ loadErrors = Views

\* C39: the status of the terminal widget. It starts at connecting; it
\* becomes running only when the socket opens; an error frame makes it
\* error and an exit frame makes it exited; once the socket has closed it is
\* exited whatever it was before; and an exit code is shown only if an exit
\* frame arrived before the close.
C39_StatusMachine ==
    /\ status = "connecting"
    /\ [][/\ (status' = "running" /\ status # "running") =>
                (readyState = "connecting" /\ readyState' = "open")
          /\ \A m \in Frames :
                (received' = Append(received, [ev |-> "message", msg |-> m])) =>
                   /\ m.type = "error" => status' = "error"
                   /\ m.type = "exit" => status' = "exited"
          /\ readyState = "closed" => UNCHANGED <<status, exitCode, readyState>>]_vars
    /\ [](readyState = "closed" => status = "exited")
    /\ [](ExitCodeShown =>
            \E i \in 1..Len(received) :
               /\ received[i].ev = "message" /\ received[i].msg.type = "exit"
               /\ \A j \in 1..i : received[j].ev # "close")

\* the socket opened, an error frame arrived, the socket closed: the status
\* went from error to exited and no exit code is shown
C39_Witness ==
    /\ readyState = "closed" /\ status = "exited" /\ ~ExitCodeShown
    /\ Len(received) = 3
    /\ received[1].ev = "open"
    /\ received[2].ev = "message" /\ received[2].msg.type = "error"
    /\ received[3].ev = "close"

====
